---- MODULE Spec2Model ----
(***************************************************************************)
(* Model of the trading engine (src/src).                                  *)
(*                                                                         *)
(* Matching engine (matching/matching_engine.h): two price ladders of FIFO *)
(* price levels, the order_lookup table, the two object pools it draws     *)
(* from, and the operations process_order and cancel_order.  An OrderEntry *)
(* is a pool node; its address is modelled by `ptr`, the number of the     *)
(* process_order call that acquired it (each call acquires at most one     *)
(* entry, so live entries have distinct ptr values).  The field `traded` of*)
(* an entry is a history field: the sum of the quantities of all trades    *)
(* emitted so far for the order the entry holds.                           *)
(*                                                                         *)
(* Queues (core/queue.h): the SPSC ring and the MPSC list over a node pool,*)
(* as pure operators on queue values.                                      *)
(* The end of the module has them again one atomic access per step, with   *)
(* their threads, together with the MPMC queue, the priority queue and the *)
(* node pool of core/memory.h (SpecSPSC, SpecMPSC, SpecMPMC, SpecPriority).*)
(*                                                                         *)
(* Aggregated order book (market_data/order_book.h): the two sorted level  *)
(* arrays with their index maps, the published best prices and version;    *)
(* SpecBook runs update_level on it.                                       *)
(*                                                                         *)
(* Risk manager (risk/risk_manager.h): the token-bucket rate limiters, the *)
(* position trackers and check_order, as pure operators on the manager's   *)
(* state; SpecRisk runs them against a clock.                              *)
(*                                                                         *)
(* Engine (engine/trading_engine.h, market_data/gateway.h,                 *)
(* strategy/strategy_base.h): the inbound queues, the worker loops, the    *)
(* gateway's receiver and per-symbol processors, the strategy worker and   *)
(* stop().  SpecPipeline runs the order pipeline of a started engine,      *)
(* SpecShutdown the whole engine from construction to the return of        *)
(* stop().  SpecThreads splits the calls into the matching engine into an  *)
(* entry and a return.  The variable `history` records what has happened   *)
(* and is never read by an action's guard.                                 *)
(***************************************************************************)
EXTENDS Integers, Sequences, FiniteSets, TLC

\* ---------------------------------------------------------------- bounds
MaxPrice == 2
MaxQty == 2
MaxOrderID == 2
MaxOrders == 4
MaxTifOrders == 2
OrderPoolSize == 2
TradePoolSize == 2

\* the risk manager's limits and clock, scaled to the model (source values in brackets)
max_position == 3          \* [1000000]
max_order_size == 2        \* [100000]
max_notional == 2          \* [10000000 * PriceScale]
max_loss_per_day == 1      \* [100000 * PriceScale]
max_price_deviation == 0   \* [to_scaled_price(10.0)]
PriceScale == 2            \* [1e8]
DefaultRate == 3           \* [1000] global limiter: tokens per second and bucket size
SymbolRate == 1            \* [100] per-symbol limiter: tokens per second and bucket size
NanosPerSecond == 4        \* [1000000000]
tsc_frequency == 2         \* clock ticks per second, as calibrated
WordBits == 8              \* [64]
MaxClock == 4              \* last clock reading considered
MaxRiskVolume == 3         \* total quantity of the trades reported directly to the risk manager
MaxRiskQty == 3            \* largest order quantity offered to the risk manager

\* queue sizes (powers of two, given by their exponent) and engine bounds
IncomingBits == 2          \* incoming_orders [4096]
ApprovedBits == 1          \* risk_approved_orders [1024]
TradeQueueSize == 1        \* trade_notifications [2048]
TickBits == 1              \* tick queues [4096]
MaxSubmits == 4            \* submit_order calls
ClientPrices == {MaxPrice} \* the limit prices of client orders
MaxTicks == 1              \* synthetic ticks generated [unbounded]
MaxShutdownSubmits == 1    \* submit_order calls in the shutdown scenarios

\* the aggregated order book
MaxLevels == 2             \* levels per side [1000]
MaxBookPrice == 2          \* largest ordinary price of a market data update
MaxBookQty == 2            \* largest quantity of a market data update
MaxVersion == 4            \* update_level calls considered

\* the queues of core/queue.h with their threads
RingBits == 2              \* SPSCQueue<T, 4>
MaxItems == 5              \* items the producer of an SPSCQueue offers
NodePoolSize == 2          \* LockFreeMemoryPool<Node, 2>
MaxPushes == 2             \* items each producer of an MPSCQueue offers
CellBits == 1              \* MPMCQueue<T, 2>
NumPriorities == 2         \* tiers of a PriorityQueue [4]
MaxTierItems == 4          \* items the producer of a PriorityQueue offers
MaxCellItems == 3          \* pushes into an MPMCQueue, claimed or about to claim a position

\* threads inside the matching engine
MaxCallerSubmits == 2      \* submit_order calls while cancel_order calls are made

\* tokens{1000}: the default member initializer of RateLimiter::tokens
InitialTokens == DefaultRate

Prices == 1..MaxPrice
Quantities == 1..MaxQty
OrderIDs == 1..MaxOrderID
Sides == {"Buy", "Sell"}
\* (orderType, TimeInForce) pairs the clients submit
OrderKinds ==
    {<<"Limit", "Day">>, <<"Limit", "Gtc">>, <<"Limit", "Ioc">>,
     <<"Limit", "Fok">>, <<"Market", "Ioc">>}

\* position of a map iterator that has run off the map (end() / rend())
End == -1

Min(a, b) == IF a <= b THEN a ELSE b
MinKey(S) == CHOOSE x \in S : \A y \in S : x <= y
MaxKey(S) == CHOOSE x \in S : \A y \in S : x >= y

\* ------------------------------------------------------------ data types
\* struct Order, as a client submits it
Order(id, side, kind, price, qty, ts) ==
    [orderID |-> id, symbolID |-> 1, side |-> side, orderType |-> kind[1],
     TimeInForce |-> kind[2], price |-> price, quantity |-> qty,
     filledQuantity |-> 0, status |-> "Incoming", timestamp |-> ts]

\* struct OrderEntry (next/prev are carried by the position in PriceLevel.orders)
OrderEntry(o, ptr, traded) == [order |-> o, ptr |-> ptr, traded |-> traded]

\* PriceLevel::PriceLevel(p)
PriceLevel(p) == [price |-> p, total_quantity |-> 0, order_count |-> 0, orders |-> <<>>]

RECURSIVE SeqWithout(_, _)
SeqWithout(s, ptr) ==
    IF s = <<>> THEN <<>>
    ELSE IF Head(s).ptr = ptr THEN SeqWithout(Tail(s), ptr)
         ELSE <<Head(s)>> \o SeqWithout(Tail(s), ptr)

\* add_order linking the entry at the head of the list instead of the tail
add_order_front(level, entry) ==
    [level EXCEPT !.orders = <<entry>> \o @,
                  !.total_quantity = @ + entry.order.quantity,
                  !.order_count = @ + 1]

\* PriceLevel::add_order
add_order(level, entry) ==
    [level EXCEPT !.orders = Append(@, entry),
                  !.total_quantity = @ + entry.order.quantity,
                  !.order_count = @ + 1]

\* remove_order that forgets to take the entry's open quantity off the level
remove_order_keeps_quantity(level, entry) ==
    [level EXCEPT !.orders = SeqWithout(@, entry.ptr),
                  !.order_count = @ - 1]

\* PriceLevel::remove_order
remove_order(level, entry) ==
    [level EXCEPT !.orders = SeqWithout(@, entry.ptr),
                  !.total_quantity = @ - entry.order.quantity,
                  !.order_count = @ - 1]

\* PriceLevel::empty
empty(level) == level.order_count = 0

\* std::map erase / insert
MapErase(m, k) == [q \in (DOMAIN m) \ {k} |-> m[q]]
MapPut(m, k, v) == [q \in (DOMAIN m) \cup {k} |-> IF q = k THEN v ELSE m[q]]

\* the entry a pointer designates inside a level's list
EntryIn(level, ptr) ==
    level.orders[CHOOSE i \in 1..Len(level.orders) : level.orders[i].ptr = ptr]

ReplaceEntry(level, entry) ==
    [level EXCEPT !.orders =
        [i \in 1..Len(@) |-> IF @[i].ptr = entry.ptr THEN entry ELSE @[i]]]

PtrsOf(level) == [i \in 1..Len(level.orders) |-> level.orders[i].ptr]

\* MatchingEngine::determine_aggressor_side
determine_aggressor_side(buy_order, sell_order) ==
    IF buy_order.timestamp > sell_order.timestamp THEN "Buy" ELSE "Sell"

\* create_trade pricing the trade at the buy order's limit instead of the level's price
create_trade_at_buy_limit(tid, buy_order, sell_order, trade_price, trade_qty) ==
    [trade_id |-> tid, buy_order_id |-> buy_order.orderID,
     sell_order_id |-> sell_order.orderID, symbol_id |-> buy_order.symbolID,
     price |-> buy_order.price, quantity |-> trade_qty,
     aggressor_side |-> determine_aggressor_side(buy_order, sell_order)]

\* MatchingEngine::create_trade, the Trade it fills in once trade_pool.acquire() succeeded
create_trade(tid, buy_order, sell_order, trade_price, trade_qty) ==
    [trade_id |-> tid, buy_order_id |-> buy_order.orderID,
     sell_order_id |-> sell_order.orderID, symbol_id |-> buy_order.symbolID,
     price |-> trade_price, quantity |-> trade_qty,
     aggressor_side |-> determine_aggressor_side(buy_order, sell_order)]

TradeEvent(t) == [kind |-> "trade", trade |-> t]
UpdateEvent(o, ptr) == [kind |-> "order_update", order |-> o, ptr |-> ptr]

\* ------------------------------------------------------------ core/queue.h
\* SPSCQueue<T, Size>: head and tail index a ring of Size slots; Size is a power of two
\* and `& mask` is the remainder modulo Size.  A slot keeps its last item after a pop.
SPSCQueue(Size) == [head |-> 0, tail |-> 0, buffer |-> [i \in 0..(Size - 1) |-> "T{}"]]

QueueSizeOf(q) == Cardinality(DOMAIN q.buffer)

\* SPSCQueue::size
size(q) == (q.tail - q.head) % QueueSizeOf(q)

\* SPSCQueue::capacity
capacity(q) == QueueSizeOf(q) - 1

\* try_push that does not look at head: a full ring is overwritten and reads as empty
try_push_unchecked(q, item) ==
    [ok |-> TRUE,
     q |-> [q EXCEPT !.buffer[q.tail] = item, !.tail = (q.tail + 1) % QueueSizeOf(q)]]

\* SPSCQueue::try_push: the returned flag and the queue afterwards
try_push(q, item) ==
    LET current_tail == q.tail
        next_tail == (current_tail + 1) % QueueSizeOf(q)
    IN IF next_tail = q.head
       THEN [ok |-> FALSE, q |-> q]
       ELSE [ok |-> TRUE, q |-> [q EXCEPT !.buffer[current_tail] = item, !.tail = next_tail]]

\* try_pop taking the newest item instead of the oldest
try_pop_newest(q) ==
    IF q.head = q.tail
    THEN [ok |-> FALSE, q |-> q]
    ELSE LET last == (q.tail - 1) % QueueSizeOf(q)
         IN [ok |-> TRUE, item |-> q.buffer[last], q |-> [q EXCEPT !.tail = last]]

\* SPSCQueue::try_pop: the returned flag, the item copied out and the queue afterwards
try_pop(q) ==
    LET current_head == q.head
    IN IF current_head = q.tail
       THEN [ok |-> FALSE, q |-> q]
       ELSE [ok |-> TRUE, item |-> q.buffer[current_head],
             q |-> [q EXCEPT !.head = (current_head + 1) % QueueSizeOf(q)]]

\* the items a consumer will pop, oldest first
RECURSIVE Contents(_)
Contents(q) ==
    IF q.head = q.tail THEN << >>
    ELSE <<q.buffer[q.head]>> \o Contents(try_pop(q).q)

\* MPSCQueue<T, Size>: a linked list of pool nodes behind a head node.  `items` are the
\* data of the nodes after the head node, `nodes` the number of pool nodes acquired and
\* not released, `head_is_dummy` whether the head node is still the embedded dummy_node,
\* `Size` the number of nodes of the queue's pool.
MPSCQueue(Size) == [items |-> << >>, nodes |-> 0, head_is_dummy |-> TRUE, Size |-> Size]

\* MPSCQueue::try_push (one producer at a time)
mpsc_try_push(q, item) ==
    IF q.nodes >= q.Size
    THEN [ok |-> FALSE, q |-> q]
    ELSE [ok |-> TRUE, q |-> [q EXCEPT !.items = Append(@, item), !.nodes = @ + 1]]

\* MPSCQueue::try_pop: the old head node goes back to the pool unless it is the dummy
mpsc_try_pop(q) ==
    IF q.items = << >>
    THEN [ok |-> FALSE, q |-> q]
    ELSE [ok |-> TRUE, item |-> Head(q.items),
          q |-> [q EXCEPT !.items = Tail(@),
                            !.nodes = IF q.head_is_dummy THEN @ ELSE @ - 1,
                            !.head_is_dummy = FALSE]]

\* -------------------------------------------------------- risk/risk_manager.h
\* unsigned and signed 64-bit arithmetic, at the model's word width
Word == 2 ^ WordBits
U64(x) == x % Word
S64(x) == IF U64(x) >= Word \div 2 THEN U64(x) - Word ELSE U64(x)
Abs(x) == IF x < 0 THEN -x ELSE x

\* calculate_notional (types.h)
calculate_notional(price, quantity) == (price * quantity) \div PriceScale

\* TimestampManager::tsc_to_nanoseconds
tsc_to_nanoseconds(tsc) == (tsc * NanosPerSecond) \div tsc_frequency

\* RateLimiter(): tokens{1000}, refill_rate(1000), bucket_size(1000), stamped with the clock
DefaultRateLimiter(now) ==
    [tokens |-> InitialTokens, last_refill_time |-> now,
     refill_rate |-> DefaultRate, bucket_size |-> DefaultRate]

\* RateLimiter(rate, size): sets refill_rate and bucket_size; tokens keeps its default
\* member initializer
RateLimiter(rate, bucket, now) ==
    [tokens |-> InitialTokens, last_refill_time |-> now,
     refill_rate |-> rate, bucket_size |-> bucket]

\* check_rate_limit, the tokens the elapsed time is worth
tokens_to_add(limiter, current_time) ==
    IF current_time > limiter.last_refill_time
    THEN LET elapsed_ns == tsc_to_nanoseconds(current_time - limiter.last_refill_time)
         IN (elapsed_ns * limiter.refill_rate) \div NanosPerSecond
    ELSE 0

\* check_rate_limit, the refill: the bucket is credited and restamped only when at
\* least one whole token is due
refill(limiter, current_time) ==
    IF tokens_to_add(limiter, current_time) > 0
    THEN [limiter EXCEPT
            !.tokens = Min(@ + tokens_to_add(limiter, current_time), limiter.bucket_size),
            !.last_refill_time = current_time]
    ELSE limiter

\* RiskManager::check_rate_limit: whether a token was taken, and the limiter afterwards
check_rate_limit(limiter, current_time) ==
    LET l == refill(limiter, current_time)
    IN IF l.tokens > 0
       THEN [ok |-> TRUE, limiter |-> [l EXCEPT !.tokens = @ - 1]]
       ELSE [ok |-> FALSE, limiter |-> l]

\* RiskManager::get_or_create_symbol_limiter
get_or_create_symbol_limiter(limiters, symbol_id, now) ==
    IF symbol_id \in DOMAIN limiters THEN limiters
    ELSE MapPut(limiters, symbol_id, RateLimiter(SymbolRate, SymbolRate, now))

\* PositionTracker{}
PositionTracker ==
    [current_position |-> 0, current_notional |-> 0, realized_pnl |-> 0,
     vwap |-> 0, total_volume |-> 0]

\* positions[symbol_id]: operator[] inserts a zero tracker for a new symbol
TrackerOf(trackers, symbol_id) ==
    IF symbol_id \in DOMAIN trackers THEN trackers[symbol_id] ELSE PositionTracker

\* RiskManager::check_price_deviation
check_price_deviation(refs, order) ==
    IF order.symbolID \notin DOMAIN refs THEN TRUE
    ELSE LET ref_price == refs[order.symbolID]
             price_diff == IF order.price > ref_price THEN order.price - ref_price
                           ELSE ref_price - order.price
         IN ref_price = 0 \/ price_diff <= max_price_deviation

\* check_position taking the absolute value at the width of an int (std::abs(int))
check_position_abs_int(position, order) ==
    LET position_change == IF order.side = "Buy" THEN order.quantity ELSE -order.quantity
        new_position == position.current_position + position_change
        order_notional == calculate_notional(order.price, order.quantity)
        as_int == ((new_position + max_position + 1) % (2 * max_position + 2))
                      - (max_position + 1)
    IN IF Abs(as_int) > max_position THEN "rejected_position_limit"
       ELSE IF /\ \/ new_position > 0 /\ position_change > 0
                  \/ new_position < 0 /\ position_change < 0
               /\ position.current_notional + order_notional > max_notional
       THEN "rejected_notional_limit"
       ELSE IF position.realized_pnl < -max_loss_per_day THEN "rejected_loss_limit"
       ELSE "approved"

\* check_order, lines 154-190: the checks made on the symbol's position
check_position(position, order) ==
    LET position_change == IF order.side = "Buy" THEN order.quantity ELSE -order.quantity
        new_position == position.current_position + position_change
        order_notional == calculate_notional(order.price, order.quantity)
    IN IF Abs(new_position) > max_position THEN "rejected_position_limit"
       ELSE IF /\ \/ new_position > 0 /\ position_change > 0
                  \/ new_position < 0 /\ position_change < 0
               /\ position.current_notional + order_notional > max_notional
       THEN "rejected_notional_limit"
       ELSE IF position.realized_pnl < -max_loss_per_day THEN "rejected_loss_limit"
       ELSE "approved"

\* check_order with the order-size check made before the two rate-limit checks
check_order_size_first(order, rm, now) ==
    LET g == check_rate_limit(rm.global_rate_limiter, now)
        limiters == get_or_create_symbol_limiter(rm.symbol_rate_limiters, order.symbolID, now)
        s == check_rate_limit(limiters[order.symbolID], now)
        rm_g == [rm EXCEPT !.global_rate_limiter = g.limiter]
        rm_s == [rm_g EXCEPT !.symbol_rate_limiters = MapPut(limiters, order.symbolID, s.limiter)]
        rm_p == [rm_s EXCEPT !.positions =
                    MapPut(@, order.symbolID, TrackerOf(@, order.symbolID))]
    IN IF order.quantity > max_order_size THEN [ret |-> "rejected_order_size", rm |-> rm]
       ELSE IF ~g.ok THEN [ret |-> "rejected_rate_limit", rm |-> rm_g]
       ELSE IF ~s.ok THEN [ret |-> "rejected_rate_limit", rm |-> rm_s]
       ELSE IF ~check_price_deviation(rm.reference_prices, order)
       THEN [ret |-> "rejected_price_limit", rm |-> rm_s]
       ELSE [ret |-> check_position(rm_p.positions[order.symbolID], order), rm |-> rm_p]

\* RiskManager::check_order on the risk manager's state rm at clock reading `now`:
\* the result and the state afterwards
check_order(order, rm, now) ==
    LET g == check_rate_limit(rm.global_rate_limiter, now)
        limiters == get_or_create_symbol_limiter(rm.symbol_rate_limiters, order.symbolID, now)
        s == check_rate_limit(limiters[order.symbolID], now)
        rm_g == [rm EXCEPT !.global_rate_limiter = g.limiter]
        rm_s == [rm_g EXCEPT !.symbol_rate_limiters = MapPut(limiters, order.symbolID, s.limiter)]
        rm_p == [rm_s EXCEPT !.positions =
                    MapPut(@, order.symbolID, TrackerOf(@, order.symbolID))]
    IN IF ~g.ok THEN [ret |-> "rejected_rate_limit", rm |-> rm_g]
       ELSE IF ~s.ok THEN [ret |-> "rejected_rate_limit", rm |-> rm_s]
       ELSE IF order.quantity > max_order_size THEN [ret |-> "rejected_order_size", rm |-> rm_s]
       ELSE IF ~check_price_deviation(rm.reference_prices, order)
       THEN [ret |-> "rejected_price_limit", rm |-> rm_s]
       ELSE [ret |-> check_position(rm_p.positions[order.symbolID], order), rm |-> rm_p]

\* RiskManager::update_vwap
update_vwap(position, price, quantity) ==
    LET old_volume == position.total_volume
        old_total_value == (position.vwap * old_volume) \div PriceScale
        new_value == (price * quantity) \div PriceScale
    IN [position EXCEPT !.total_volume = old_volume + quantity,
                        !.vwap = ((old_total_value + new_value) * PriceScale)
                                     \div (old_volume + quantity)]

\* RiskManager::calculate_pnl_change: the price difference is an unsigned subtraction
calculate_pnl_change(position, exit_price, quantity) ==
    IF position.vwap = 0 THEN 0
    ELSE IF position.current_position > 0
    THEN S64(U64(U64(exit_price - position.vwap) * quantity) \div PriceScale)
    ELSE S64(U64(U64(position.vwap - exit_price) * quantity) \div PriceScale)

\* RiskManager::update_position: the trackers the call can leave.  The divisor of the
\* proportional notional reduction can be zero; the division is then undefined and any
\* reduction up to the current notional is taken as a possible outcome.
update_position(position, trade) ==
    LET position_change == IF trade.aggressor_side = "Buy" THEN trade.quantity
                           ELSE -trade.quantity
        notional_change == calculate_notional(trade.price, trade.quantity)
        old_position == position.current_position
        moved == [position EXCEPT !.current_position = old_position + position_change]
        priced == update_vwap(moved, trade.price, trade.quantity)
        reducing == \/ old_position > 0 /\ position_change < 0
                    \/ old_position < 0 /\ position_change > 0
        settled == IF reducing
                   THEN [priced EXCEPT !.realized_pnl =
                            S64(@ + calculate_pnl_change(priced, trade.price,
                                                         Abs(position_change)))]
                   ELSE priced
        current_notional == settled.current_notional
        divisor == (Abs(old_position) * trade.price) \div PriceScale
    IN IF \/ old_position >= 0 /\ position_change > 0
          \/ old_position <= 0 /\ position_change < 0
       THEN {[settled EXCEPT !.current_notional = current_notional + notional_change]}
       ELSE IF current_notional = 0 THEN {settled}
       ELSE IF divisor = 0
       THEN {[settled EXCEPT !.current_notional = current_notional - r] :
                r \in 0..current_notional}
       ELSE {[settled EXCEPT !.current_notional = current_notional
                - Min((notional_change * current_notional) \div divisor, current_notional)]}

\* RiskManager::update_reference_price
update_reference_price(refs, symbol_id, price) == MapPut(refs, symbol_id, price)

\* RiskManager(): default limits, no position, no per-symbol limiter, no reference price;
\* the global limiter is stamped with the clock reading `stamp`
RiskManager(stamp) ==
    [global_rate_limiter |-> DefaultRateLimiter(stamp), symbol_rate_limiters |-> << >>,
     positions |-> << >>, reference_prices |-> << >>]

\* ------------------------------------------------------------------ state
VARIABLES
    bid_levels,               \* price -> PriceLevel, best bid = highest key
    ask_levels,               \* price -> PriceLevel, best ask = lowest key
    order_lookup,             \* orderID -> ptr of an OrderEntry
    order_pool,               \* number of OrderEntry nodes acquired and not released
    trade_pool,               \* number of Trade nodes acquired (none is ever released)
    trade_id_generator,       \* next trade id
    total_orders_processed,
    total_trades_generated,
    total_volume_matched,
    last_call,                \* the call that produced the current state, with its argument
    result,                   \* what that call returned
    callbacks,                \* the callbacks that call made, in order
    risk_manager,             \* limiters, positions and reference prices of the RiskManager
    clock,                    \* the reading get_hardware_timestamp() returns now
    incoming_orders,          \* SPSCQueue: submit_order -> risk worker
    risk_approved_orders,     \* SPSCQueue: risk worker -> matcher worker
    trade_notifications,      \* MPSCQueue: matcher worker -> trade worker
    engine_running,
    stopped,
    worker_threads,           \* the worker threads in creation order, with where each is
    market_data_gateway,      \* gateway_running, the receiver thread, the symbol processors
    strategies,               \* the strategies added, with their inbound queues
    statistics,               \* orders_received, orders_processed, orders_rejected, trades_executed
    stop_pc,                  \* where the controlling thread is inside stop()
    history,                  \* what has happened so far (not program state)
    inside,                   \* the calls into the matching engine that are under way
    order_book,               \* OrderBook: the aggregated book of one symbol
    queues                    \* a queue of core/queue.h with the threads working on it

\* the components specified on their own
component_vars == <<inside, order_book, queues>>

\* the matching engine's own state
book_vars == <<bid_levels, ask_levels, order_lookup, order_pool, trade_pool,
               trade_id_generator, total_orders_processed, total_trades_generated,
               total_volume_matched>>

\* the rest of the trading engine: risk manager, queues, threads, counters
engine_vars == <<risk_manager, clock, incoming_orders, risk_approved_orders,
                 trade_notifications, engine_running, stopped, worker_threads,
                 market_data_gateway, strategies, statistics, stop_pc, history,
                 inside, order_book, queues>>

vars == <<bid_levels, ask_levels, order_lookup, order_pool, trade_pool,
          trade_id_generator, total_orders_processed, total_trades_generated,
          total_volume_matched, last_call, result, callbacks,
          risk_manager, clock, incoming_orders, risk_approved_orders,
          trade_notifications, engine_running, stopped, worker_threads,
          market_data_gateway, strategies, statistics, stop_pc, history,
          inside, order_book, queues>>

\* The engine state a match loop works on; `levels` is the side being walked.
MatchState(levels, qty) ==
    [levels |-> levels, order_lookup |-> order_lookup, order_pool |-> order_pool,
     trade_pool |-> trade_pool, trade_id_generator |-> trade_id_generator,
     total_trades_generated |-> total_trades_generated,
     total_volume_matched |-> total_volume_matched,
     trades |-> <<>>, callbacks |-> <<>>, remaining_qty |-> qty]

\* One resting order after a trade of trade_qty against it (matching_engine.h 229-253).
\* `incoming_is_buy` only selects the argument order of create_trade.
FillResting(m, working_order, level_price, ptr, incoming_is_buy) ==
    LET level == m.levels[level_price]
        resting == EntryIn(level, ptr)
        trade_qty == Min(m.remaining_qty, resting.order.quantity)
        trade == IF incoming_is_buy
                 THEN create_trade(m.trade_id_generator, working_order, resting.order,
                                   level_price, trade_qty)
                 ELSE create_trade(m.trade_id_generator, resting.order, working_order,
                                   level_price, trade_qty)
        gone == resting.order.quantity - trade_qty = 0
        hit == [resting EXCEPT !.order.quantity = @ - trade_qty,
                               !.order.filledQuantity = @ + trade_qty,
                               !.order.status = IF gone THEN "Filled" ELSE "PartiallyFilled",
                               !.traded = @ + trade_qty]
        level1 == [ReplaceEntry(level, hit) EXCEPT !.total_quantity = @ - trade_qty]
        level2 == IF gone THEN remove_order(level1, hit) ELSE level1
    IN [m EXCEPT !.trades = Append(@, trade),
                 !.remaining_qty = @ - trade_qty,
                 !.levels[level_price] = level2,
                 !.total_volume_matched = @ + trade_qty,
                 !.order_lookup = IF gone THEN MapErase(@, hit.order.orderID) ELSE @,
                 !.order_pool = IF gone THEN @ - 1 ELSE @,
                 !.trade_pool = @ + 1,
                 !.trade_id_generator = @ + 1,
                 !.total_trades_generated = @ + 1,
                 !.callbacks = @ \o <<TradeEvent(trade), UpdateEvent(hit.order, hit.ptr)>>]

\* match_buy_order, the loop over one ask level's FIFO list; `todo` is the chain of
\* next pointers from the order the loop stands on
RECURSIVE buy_fill_level(_, _, _, _)
buy_fill_level(m, working_order, level_price, todo) ==
    IF todo = <<>> \/ ~(m.remaining_qty > 0) THEN m
    ELSE IF m.trade_pool < TradePoolSize
         THEN buy_fill_level(FillResting(m, working_order, level_price, Head(todo), TRUE),
                             working_order, level_price, Tail(todo))
         ELSE buy_fill_level(m, working_order, level_price, Tail(todo))

\* match_sell_order, the loop over one bid level's FIFO list
RECURSIVE sell_fill_level(_, _, _, _)
sell_fill_level(m, working_order, level_price, todo) ==
    IF todo = <<>> \/ ~(m.remaining_qty > 0) THEN m
    ELSE IF m.trade_pool < TradePoolSize
         THEN sell_fill_level(FillResting(m, working_order, level_price, Head(todo), FALSE),
                              working_order, level_price, Tail(todo))
         ELSE sell_fill_level(m, working_order, level_price, Tail(todo))

\* match_buy_order, the walk over ask_levels from begin(); ask_it is the key the
\* iterator stands on
RECURSIVE buy_walk(_, _, _)
buy_walk(m, buy_order, ask_it) ==
    IF ask_it = End \/ ~(ask_it <= buy_order.price) \/ ~(m.remaining_qty > 0) THEN m
    ELSE LET m1 == buy_fill_level(m, buy_order, ask_it, PtrsOf(m.levels[ask_it]))
             above == {p \in DOMAIN m1.levels : p > ask_it}
             next_it == IF above = {} THEN End ELSE MinKey(above)
         IN IF empty(m1.levels[ask_it])
            THEN buy_walk([m1 EXCEPT !.levels = MapErase(@, ask_it)], buy_order, next_it)
            ELSE buy_walk(m1, buy_order, next_it)

\* match_sell_order, the walk over bid_levels from rbegin(); after an erase the
\* iterator restarts at rbegin()
RECURSIVE sell_walk(_, _, _)
sell_walk(m, sell_order, bid_it) ==
    IF bid_it = End \/ ~(bid_it >= sell_order.price) \/ ~(m.remaining_qty > 0) THEN m
    ELSE LET m1 == sell_fill_level(m, sell_order, bid_it, PtrsOf(m.levels[bid_it]))
             erased == MapErase(m1.levels, bid_it)
             below == {p \in DOMAIN m1.levels : p < bid_it}
         IN IF empty(m1.levels[bid_it])
            THEN sell_walk([m1 EXCEPT !.levels = erased], sell_order,
                           IF DOMAIN erased = {} THEN End ELSE MaxKey(DOMAIN erased))
            ELSE sell_walk(m1, sell_order,
                           IF below = {} THEN End ELSE MaxKey(below))

\* The tail of match_buy_order / match_sell_order (267-279, 347-359): the MatchResult,
\* with the entry acquired for the remainder.  new_ptr is the address of that entry.
Remainder(m, order, new_ptr) ==
    LET fully_matched == m.remaining_qty = 0
        acquired == ~fully_matched /\ m.order_pool < OrderPoolSize
        working_order == [order EXCEPT !.quantity = m.remaining_qty, !.status = "Incoming"]
    IN [m |-> [m EXCEPT !.order_pool = IF acquired THEN @ + 1 ELSE @],
        trades |-> m.trades,
        fully_matched |-> fully_matched,
        remaining_order |->
            IF acquired
            THEN <<OrderEntry(working_order, new_ptr, order.quantity - m.remaining_qty)>>
            ELSE <<>>]

\* MatchingEngine::match_buy_order
match_buy_order(buy_order, new_ptr) ==
    Remainder(buy_walk(MatchState(ask_levels, buy_order.quantity), buy_order,
                       IF DOMAIN ask_levels = {} THEN End ELSE MinKey(DOMAIN ask_levels)),
              buy_order, new_ptr)

\* match_sell_order walking bid_levels from begin() (the lowest bid) instead of rbegin()
match_sell_order_from_begin(sell_order, new_ptr) ==
    Remainder(sell_walk(MatchState(bid_levels, sell_order.quantity), sell_order,
                        IF DOMAIN bid_levels = {} THEN End ELSE MinKey(DOMAIN bid_levels)),
              sell_order, new_ptr)

\* MatchingEngine::match_sell_order
match_sell_order(sell_order, new_ptr) ==
    Remainder(sell_walk(MatchState(bid_levels, sell_order.quantity), sell_order,
                        IF DOMAIN bid_levels = {} THEN End ELSE MaxKey(DOMAIN bid_levels)),
              sell_order, new_ptr)

\* MatchingEngine::add_order_to_book, on the side the entry belongs to
add_order_to_book(levels, entry) ==
    LET price == entry.order.price
    IN IF price \notin DOMAIN levels
       THEN MapPut(levels, price, add_order(PriceLevel(price), entry))
       ELSE MapPut(levels, price, add_order(levels[price], entry))

\* MatchingEngine::remove_order_from_book, on the side the entry belongs to
remove_order_from_book(levels, entry) ==
    LET price == entry.order.price
    IN IF price \in DOMAIN levels
       THEN LET level == remove_order(levels[price], entry)
            IN IF empty(level) THEN MapErase(levels, price) ELSE MapPut(levels, price, level)
       ELSE levels

\* -------------------------------------------------------------- operations
\* the live entry a pointer held in order_lookup designates
EntryAt(ptr) ==
    LET found == {e \in UNION ({{bid_levels[p].orders[i] : i \in 1..Len(bid_levels[p].orders)}
                                    : p \in DOMAIN bid_levels}
                               \cup {{ask_levels[p].orders[i] : i \in 1..Len(ask_levels[p].orders)}
                                    : p \in DOMAIN ask_levels}) : e.ptr = ptr}
    IN CHOOSE e \in found : TRUE

\* The clock reading the global rate limiter is stamped with when the TradingEngine
\* constructor builds the RiskManager: TimestampManager is initialized only by start(), so
\* the stamp comes from fallback_timestamp() (nanoseconds since the epoch), which is ahead
\* of every later TSC reading.
FallbackStamp == MaxClock + 1

\* the history of a run, empty
NoHistory ==
    [submitted |-> << >>, checked |-> << >>, forwarded |-> << >>, processed |-> << >>,
     updates |-> << >>, emitted |-> << >>, observed |-> << >>, cancelled |-> << >>,
     credited |-> 0, clamped |-> FALSE, shutdown |-> << >>]

\* ---------------------------------------------------------------- aggregated order book
\* the value best_ask holds while no ask is stored
UINT64_MAX == Word - 1

\* OrderBook(): both sides empty.  `levels` holds levels[0..level_count) of the source
\* array (the slots behind level_count are never read), price_to_index is the index map
\* with the source's positions counted from 0; `writer` is where the writing thread is
\* inside update_level.
OrderBook ==
    [bids |-> [levels |-> << >>, price_to_index |-> << >>],
     asks |-> [levels |-> << >>, price_to_index |-> << >>],
     version |-> 0, best_bid |-> 0, best_ask |-> UINT64_MAX,
     best_bid_qty |-> 0, best_ask_qty |-> 0, writer |-> "idle"]

level_count(book_side) == Len(book_side.levels)

\* price_to_index[price] = index
Put(price_to_index, price, index) ==
    [p \in DOMAIN price_to_index \cup {price} |->
        IF p = price THEN index ELSE price_to_index[p]]

\* the index-map updates of a shift loop: for every position i of `order`, in that order,
\* price_to_index[levels[i].price] = i
RECURSIVE reindex(_, _, _)
reindex(price_to_index, levels, order) ==
    IF order = << >> THEN price_to_index
    ELSE reindex(Put(price_to_index, levels[Head(order) + 1].price, Head(order)),
                 levels, Tail(order))

\* OrderBook::add_level, mutated: the new level goes behind the stored ones
add_level_appending(book_side, price, quantity, is_bid_side) ==
    LET current_count == level_count(book_side)
    IN  IF current_count >= MaxLevels THEN book_side
        ELSE [levels |-> Append(book_side.levels, [price |-> price, quantity |-> quantity,
                                                   order_count |-> 1]),
              price_to_index |-> Put(book_side.price_to_index, price, current_count)]

\* OrderBook::add_level
add_level(book_side, price, quantity, is_bid_side) ==
    LET current_count == level_count(book_side)
        before == {i \in 1..current_count :
                      IF is_bid_side THEN price > book_side.levels[i].price
                      ELSE price < book_side.levels[i].price}
        insert_index == IF before = {} THEN current_count
                        ELSE (CHOOSE i \in before : \A j \in before : i <= j) - 1
        levels == SubSeq(book_side.levels, 1, insert_index)
                  \o <<[price |-> price, quantity |-> quantity, order_count |-> 1]>>
                  \o SubSeq(book_side.levels, insert_index + 1, current_count)
        shifted == [k \in 1..(current_count - insert_index) |-> current_count + 1 - k]
    IN  IF current_count >= MaxLevels THEN book_side
        ELSE [levels |-> levels,
              price_to_index |-> Put(reindex(book_side.price_to_index, levels, shifted),
                                     price, insert_index)]

\* OrderBook::remove_level, mutated: the index map keeps the positions it had
remove_level_stale_index(book_side, index, price) ==
    LET current_count == level_count(book_side)
    IN  IF index >= current_count THEN book_side
        ELSE [levels |-> SubSeq(book_side.levels, 1, index)
                         \o SubSeq(book_side.levels, index + 2, current_count),
              price_to_index |-> [p \in DOMAIN book_side.price_to_index \ {price} |->
                                     book_side.price_to_index[p]]]

\* OrderBook::remove_level
remove_level(book_side, index, price) ==
    LET current_count == level_count(book_side)
        levels == SubSeq(book_side.levels, 1, index)
                  \o SubSeq(book_side.levels, index + 2, current_count)
        shifted == [k \in 1..(current_count - 1 - index) |-> index + k - 1]
        price_to_index == reindex(book_side.price_to_index, levels, shifted)
    IN  IF index >= current_count THEN book_side
        ELSE [levels |-> levels,
              price_to_index |-> [p \in DOMAIN price_to_index \ {price} |->
                                     price_to_index[p]]]

\* OrderBook::update_level, the part under the side's unique_lock
update_side(book_side, price, quantity, is_bid_side) ==
    IF price \in DOMAIN book_side.price_to_index
    THEN LET index == book_side.price_to_index[price]
         IN  IF quantity = 0 THEN remove_level(book_side, index, price)
             ELSE [book_side EXCEPT !.levels[index + 1].quantity = quantity]
    ELSE IF quantity > 0 THEN add_level(book_side, price, quantity, is_bid_side)
    ELSE book_side

\* OrderBook::update_best_prices
update_best_prices(book) ==
    LET bid == IF level_count(book.bids) > 0
               THEN [book EXCEPT !.best_bid = book.bids.levels[1].price,
                                 !.best_bid_qty = book.bids.levels[1].quantity]
               ELSE [book EXCEPT !.best_bid = 0, !.best_bid_qty = 0]
    IN  IF level_count(book.asks) > 0
        THEN [bid EXCEPT !.best_ask = book.asks.levels[1].price,
                         !.best_ask_qty = book.asks.levels[1].quantity]
        ELSE [bid EXCEPT !.best_ask = UINT64_MAX, !.best_ask_qty = 0]

\* OrderBook::get_best_bid
get_best_bid(book) == book.best_bid

\* OrderBook::get_best_ask
get_best_ask(book) == IF book.best_ask = UINT64_MAX THEN 0 ELSE book.best_ask

\* no thread is inside the matching engine: the arguments of the process_order call and
\* of the cancel_order call under way, none
NoCalls == [process_order |-> << >>, cancel_order |-> << >>]

\* no queue of core/queue.h is under test
NoQueue == [kind |-> "none"]

\* TradingEngine(): the state initialize_components() leaves, the RiskManager's global
\* limiter stamped with `stamp`, trade_notifications with a pool of `trade_nodes` nodes
ConstructedWith(stamp, trade_nodes) ==
    /\ bid_levels = << >>
    /\ ask_levels = << >>
    /\ order_lookup = << >>
    /\ order_pool = 0
    /\ trade_pool = 0
    /\ trade_id_generator = 1
    /\ total_orders_processed = 0
    /\ total_trades_generated = 0
    /\ total_volume_matched = 0
    /\ last_call = [op |-> "none"]
    /\ result = [ret |-> FALSE]
    /\ callbacks = << >>
    /\ risk_manager = RiskManager(stamp)
    /\ clock = 0
    /\ incoming_orders = SPSCQueue(2 ^ IncomingBits)
    /\ risk_approved_orders = SPSCQueue(2 ^ ApprovedBits)
    /\ trade_notifications = MPSCQueue(trade_nodes)
    /\ engine_running = FALSE
    /\ stopped = FALSE
    /\ worker_threads = << >>
    /\ market_data_gateway = [gateway_running |-> FALSE, receiver_thread |-> "none",
                              processors |-> << >>, counter |-> 0]
    /\ strategies = << >>
    /\ statistics = [orders_received |-> 0, orders_processed |-> 0,
                     orders_rejected |-> 0, trades_executed |-> 0]
    /\ stop_pc = "idle"
    /\ history = NoHistory
    /\ inside = NoCalls
    /\ order_book = OrderBook

\* the engine at the model's scale
Constructed(stamp) == ConstructedWith(stamp, TradeQueueSize)

Init == Constructed(FallbackStamp) /\ queues = NoQueue

\* MatchingEngine::process_order
process_order(incoming_order) ==
    /\ total_orders_processed' = total_orders_processed + 1
    /\ LET new_ptr == total_orders_processed + 1
           r == IF incoming_order.side = "Buy"
                THEN match_buy_order(incoming_order, new_ptr)
                ELSE match_sell_order(incoming_order, new_ptr)
           rest == ~r.fully_matched /\ r.remaining_order # << >>
           entry == r.remaining_order[1]
           opposite == r.m.levels
       IN /\ IF incoming_order.side = "Buy"
             THEN /\ ask_levels' = opposite
                  /\ bid_levels' = IF rest THEN add_order_to_book(bid_levels, entry)
                                   ELSE bid_levels
             ELSE /\ bid_levels' = opposite
                  /\ ask_levels' = IF rest THEN add_order_to_book(ask_levels, entry)
                                   ELSE ask_levels
          /\ order_lookup' = IF rest THEN MapPut(r.m.order_lookup, entry.order.orderID, entry.ptr)
                             ELSE r.m.order_lookup
          /\ order_pool' = r.m.order_pool
          /\ trade_pool' = r.m.trade_pool
          /\ trade_id_generator' = r.m.trade_id_generator
          /\ total_trades_generated' = r.m.total_trades_generated
          /\ total_volume_matched' = r.m.total_volume_matched
          /\ result' = [trades |-> r.trades, fully_matched |-> r.fully_matched,
                        remaining_order |-> r.remaining_order]
          /\ callbacks' = r.m.callbacks
    /\ last_call' = [op |-> "process_order", order |-> incoming_order]

\* MatchingEngine::cancel_order
cancel_order(order_id) ==
    /\ last_call' = [op |-> "cancel_order", order_id |-> order_id]
    /\ IF order_id \notin DOMAIN order_lookup
       THEN /\ result' = [ret |-> FALSE]
            /\ callbacks' = << >>
            /\ UNCHANGED <<bid_levels, ask_levels, order_lookup, order_pool>>
       ELSE LET entry == EntryAt(order_lookup[order_id])
            IN /\ IF entry.order.side = "Buy"
                  THEN /\ bid_levels' = remove_order_from_book(bid_levels, entry)
                       /\ UNCHANGED ask_levels
                  ELSE /\ ask_levels' = remove_order_from_book(ask_levels, entry)
                       /\ UNCHANGED bid_levels
               /\ callbacks' = <<UpdateEvent([entry.order EXCEPT !.status = "Cancelled"],
                                             entry.ptr)>>
               /\ order_pool' = order_pool - 1
               /\ order_lookup' = MapErase(order_lookup, order_id)
               /\ result' = [ret |-> TRUE]
    /\ UNCHANGED <<trade_pool, trade_id_generator, total_orders_processed,
                   total_trades_generated, total_volume_matched>>

\* The orders clients submit.  main.cpp numbers its orders from 1 and every strategy
\* draws ids from its own counter starting at 1, so ids are not unique.
OrdersOfKinds(kinds) ==
    {Order(id, side, kind, price, qty, 1) :
        id \in OrderIDs, side \in Sides, kind \in kinds,
        price \in Prices, qty \in Quantities}

\* GTC limit orders only (the engine never reads orderType or TimeInForce)
LimitOrders == OrdersOfKinds({<<"Limit", "Gtc">>})
\* every kind of order
IncomingOrders == OrdersOfKinds(OrderKinds)

\* the matcher worker hands process_order the next approved order
ProcessLimitOrder ==
    /\ \E o \in LimitOrders : total_orders_processed < MaxOrders /\ process_order(o)
    /\ UNCHANGED engine_vars

\* TradingEngine::cancel_order forwards to the matching engine
Cancel ==
    /\ \E id \in OrderIDs : cancel_order(id)
    /\ UNCHANGED engine_vars

Next == ProcessLimitOrder \/ Cancel

Spec == Init /\ [][Next]_vars

\* the same engine fed with orders of every type and time in force
ProcessAnyOrder ==
    /\ \E o \in IncomingOrders : total_orders_processed < MaxTifOrders /\ process_order(o)
    /\ UNCHANGED engine_vars

NextTif == ProcessAnyOrder \/ Cancel

SpecTif == Init /\ [][NextTif]_vars

\* ------------------------------------------------------- derived notions
EntriesOf(levels) ==
    UNION {{levels[p].orders[i] : i \in 1..Len(levels[p].orders)} : p \in DOMAIN levels}

\* every OrderEntry resting in the book
RestingEntries == EntriesOf(bid_levels) \cup EntriesOf(ask_levels)

AllLevels ==
    {bid_levels[p] : p \in DOMAIN bid_levels} \cup {ask_levels[p] : p \in DOMAIN ask_levels}

RECURSIVE SumOpen(_)
SumOpen(entries) ==
    IF entries = << >> THEN 0 ELSE Head(entries).order.quantity + SumOpen(Tail(entries))

RECURSIVE SumTrades(_)
SumTrades(trades) ==
    IF trades = << >> THEN 0 ELSE Head(trades).quantity + SumTrades(Tail(trades))

RECURSIVE SumCounts(_, _)
SumCounts(levels, prices) ==
    IF prices = {} THEN 0
    ELSE LET p == CHOOSE q \in prices : TRUE
         IN levels[p].order_count + SumCounts(levels, prices \ {p})

\* the current state is the one a process_order call returned in
Processed == last_call.op = "process_order"
\* the address of the entry that call acquired, if it acquired one
CallPtr == total_orders_processed

\* the order_update callbacks among a call's callbacks, by position
UpdatesAt(cbs) == {k \in 1..Len(cbs) : cbs[k].kind = "order_update"}

\* ------------------------------------------------------------------ claims

\* C1 -- FIFO within a price level: when two orders A and B rest in the same level and
\* A was added first, a process_order call fills B only after it has filled A completely.
\* (A is the entry acquired earlier, so A.ptr < B.ptr; a cancelled A has left the level.)
FifoWithinLevel ==
    [][last_call'.op = "process_order" =>
        \A level \in AllLevels :
          \A i, j \in 1..Len(level.orders) :
            LET A == level.orders[i]
                B == level.orders[j]
            IN A.ptr < B.ptr =>
                 \A k \in UpdatesAt(callbacks') :
                    callbacks'[k].ptr = B.ptr =>
                      \E h \in UpdatesAt(callbacks') :
                         /\ h < k
                         /\ callbacks'[h].ptr = A.ptr
                         /\ callbacks'[h].order.status = "Filled"
                         /\ callbacks'[h].order.quantity = 0]_vars

\* C1 witness: one incoming order traded with two orders of one level, the first of
\* them filled completely
FifoWitness ==
    /\ Processed
    /\ Len(result.trades) = 2
    /\ result.trades[1].price = result.trades[2].price
    /\ callbacks[2].order.status = "Filled"
    /\ callbacks[2].ptr < callbacks[4].ptr

\* C2 -- Price priority: the trades of one incoming order run from the best opposite
\* price outward (ascending for a buy, descending for a sell), and when the call returns
\* no opposite level strictly better than a traded price still holds open quantity.
PricePriority ==
    Processed =>
        LET o == last_call.order
            t == result.trades
        IN /\ \A i, j \in 1..Len(t) :
                i < j => IF o.side = "Buy" THEN t[i].price <= t[j].price
                         ELSE t[i].price >= t[j].price
           /\ \A i \in 1..Len(t) :
                IF o.side = "Buy"
                THEN \A p \in DOMAIN ask_levels :
                        p < t[i].price => ask_levels[p].total_quantity = 0
                                          /\ ask_levels[p].orders = << >>
                ELSE \A p \in DOMAIN bid_levels :
                        p > t[i].price => bid_levels[p].total_quantity = 0
                                          /\ bid_levels[p].orders = << >>

\* C2 witness: a sell swept two bid levels, the higher one first, and a lower bid
\* level may remain
PricePriorityWitness ==
    /\ Processed
    /\ last_call.order.side = "Sell"
    /\ Len(result.trades) = 2
    /\ result.trades[1].price > result.trades[2].price

\* C3 -- Price improvement: every trade is priced at the resting order's price, and
\* the incoming order's limit is respected.
PriceImprovement ==
    Processed =>
        LET o == last_call.order
            t == result.trades
        IN \A i \in 1..Len(t) :
             /\ callbacks[2 * i - 1] = TradeEvent(t[i])
             /\ callbacks[2 * i].kind = "order_update"
             /\ t[i].price = callbacks[2 * i].order.price
             /\ o.side = "Buy" => o.price >= t[i].price
             /\ o.side = "Sell" => o.price <= t[i].price

\* C3 witness: a buy traded below its limit
PriceImprovementWitness ==
    /\ Processed
    /\ last_call.order.side = "Buy"
    /\ Len(result.trades) >= 1
    /\ result.trades[1].price < last_call.order.price

\* C10 -- Price-level well-formedness: every level in either map is non-empty, its
\* order_count is the length of its list and its total_quantity the sum of the open
\* quantities of the orders in the list.
LevelsWellFormed ==
    \A levels \in {bid_levels, ask_levels} :
      \A p \in DOMAIN levels :
        /\ levels[p].order_count >= 1
        /\ levels[p].order_count = Len(levels[p].orders)
        /\ levels[p].total_quantity = SumOpen(levels[p].orders)
        /\ levels[p].price = p
        /\ \A i \in 1..Len(levels[p].orders) :
             /\ levels[p].orders[i].order.price = p
             /\ levels[p].orders[i].order.quantity >= 1

\* C10 witness: after a cancel a level still holds an order, and that order is
\* partially filled
LevelsWitness ==
    /\ last_call.op = "cancel_order"
    /\ result.ret
    /\ \E level \in AllLevels :
         /\ level.order_count = 1
         /\ level.orders[1].order.status = "PartiallyFilled"
         /\ level.price = callbacks[1].order.price

\* C4 -- Conservation: for every order the book records, the quantities of the
\* trades emitted for it add up to its filledQuantity, and its filledQuantity does not
\* exceed the quantity it was submitted with (its open quantity plus what it traded).
Conservation ==
    \A e \in RestingEntries :
        /\ e.order.filledQuantity = e.traded
        /\ e.order.filledQuantity <= e.order.quantity + e.traded

\* C5 -- IOC / Market never rest: after process_order handled an IOC or a Market order,
\* the entry of that call is in neither side of the book nor in order_lookup.
IocMarketNeverRest ==
    (Processed /\ (last_call.order.TimeInForce = "Ioc" \/ last_call.order.orderType = "Market"))
        => /\ \A e \in RestingEntries : e.ptr # CallPtr
           /\ \A id \in DOMAIN order_lookup : order_lookup[id] # CallPtr

RECURSIVE SumLevels(_, _)
SumLevels(levels, prices) ==
    IF prices = {} THEN 0
    ELSE LET p == CHOOSE q \in prices : TRUE
         IN SumOpen(levels[p].orders) + SumLevels(levels, prices \ {p})

\* the open quantity an incoming order can cross
CrossableQty(o) ==
    IF o.side = "Buy"
    THEN SumLevels(ask_levels, {p \in DOMAIN ask_levels : p <= o.price})
    ELSE SumLevels(bid_levels, {p \in DOMAIN bid_levels : p >= o.price})

\* C6 -- FOK is all-or-nothing: process_order of a FOK order that the crossable
\* liquidity cannot fill emits no trade and leaves the book and order_lookup as they were.
FokAllOrNothing ==
    [][(/\ last_call'.op = "process_order"
        /\ last_call'.order.TimeInForce = "Fok"
        /\ CrossableQty(last_call'.order) < last_call'.order.quantity)
       => /\ result'.trades = << >>
          /\ callbacks' = << >>
          /\ bid_levels' = bid_levels
          /\ ask_levels' = ask_levels
          /\ order_lookup' = order_lookup]_vars

\* C7 -- Resting the remainder: a partially matched Day/GTC limit order rests on its
\* own side at its own price with the unmatched quantity open, status PartiallyFilled
\* and its fills recorded, and order_lookup leads to it.
RemainderRests ==
    (/\ Processed
     /\ last_call.order.orderType = "Limit"
     /\ last_call.order.TimeInForce \in {"Day", "Gtc"}
     /\ result.trades # << >>
     /\ ~result.fully_matched)
    => LET o == last_call.order
           own == IF o.side = "Buy" THEN bid_levels ELSE ask_levels
       IN /\ o.price \in DOMAIN own
          /\ \E i \in 1..Len(own[o.price].orders) :
               LET e == own[o.price].orders[i]
               IN /\ e.ptr = CallPtr
                  /\ e.order.orderID = o.orderID
                  /\ e.order.quantity = o.quantity - SumTrades(result.trades)
                  /\ e.order.filledQuantity = SumTrades(result.trades)
                  /\ e.order.status = "PartiallyFilled"
                  /\ o.orderID \in DOMAIN order_lookup
                  /\ order_lookup[o.orderID] = e.ptr

\* C8 -- Cancel: cancel_order(id) of a resting order returns true, removes exactly that
\* order (and its level when it empties) and emits one Cancelled update; cancel_order of
\* an id that is not resting returns false, changes nothing and emits nothing.
CancelContract ==
    [][last_call'.op = "cancel_order" =>
        LET id == last_call'.order_id
            named == {e \in RestingEntries : e.order.orderID = id}
        IN IF named # {}
           THEN /\ result'.ret = TRUE
                /\ \E e \in named :
                     /\ RestingEntries' = RestingEntries \ {e}
                     /\ callbacks' = <<UpdateEvent([e.order EXCEPT !.status = "Cancelled"], e.ptr)>>
                     /\ LET own == IF e.order.side = "Buy" THEN bid_levels ELSE ask_levels
                            own2 == IF e.order.side = "Buy" THEN bid_levels' ELSE ask_levels'
                        IN /\ DOMAIN own2 = IF Len(own[e.order.price].orders) = 1
                                            THEN DOMAIN own \ {e.order.price} ELSE DOMAIN own
                           /\ \A p \in DOMAIN own2 \ {e.order.price} : own2[p] = own[p]
                     /\ e.order.side = "Buy" => ask_levels' = ask_levels
                     /\ e.order.side = "Sell" => bid_levels' = bid_levels
                /\ id \notin DOMAIN order_lookup'
           ELSE /\ result'.ret = FALSE
                /\ callbacks' = << >>
                /\ UNCHANGED <<bid_levels, ask_levels, order_lookup, order_pool, trade_pool>>]_vars

\* C9 -- order_lookup is exactly the set of resting orders: no two resting orders share
\* an order id, order_lookup leads from its id to every resting order, and it has as
\* many keys as the levels of both sides count orders.
LookupIsRestingSet ==
    /\ \A e1, e2 \in RestingEntries : e1.order.orderID = e2.order.orderID => e1 = e2
    /\ \A e \in RestingEntries :
         /\ e.order.orderID \in DOMAIN order_lookup
         /\ order_lookup[e.order.orderID] = e.ptr
    /\ Cardinality(DOMAIN order_lookup)
         = SumCounts(bid_levels, DOMAIN bid_levels) + SumCounts(ask_levels, DOMAIN ask_levels)

\* ------------------------------------------------- the risk manager on its own
\* the orders offered to check_order
RiskOrders ==
    {Order(1, side, <<"Limit", "Gtc">>, price, qty, 1) :
        side \in Sides, price \in Prices, qty \in 1..MaxRiskQty}

\* the trades reported to update_position
RiskTrades ==
    {[trade_id |-> 1, buy_order_id |-> 1, sell_order_id |-> 1, symbol_id |-> 1,
      price |-> price, quantity |-> qty, aggressor_side |-> side] :
        price \in Prices, qty \in Quantities, side \in Sides}

\* what a check_order call at the current clock reading adds to the history: the tokens
\* the global limiter is credited with, and whether the bucket size cut the credit
Credit(h) ==
    LET limiter == risk_manager.global_rate_limiter
        due == tokens_to_add(limiter, clock)
    IN [h EXCEPT !.credited = @ + due,
                 !.clamped = @ \/ limiter.tokens + due > limiter.bucket_size]

\* a caller hands an order to RiskManager::check_order
CheckOrder ==
    /\ \E o \in RiskOrders :
          LET r == check_order(o, risk_manager, clock)
          IN /\ risk_manager' = r.rm
             /\ last_call' = [op |-> "check_order", order |-> o]
             /\ result' = [ret |-> r.ret]
    /\ history' = Credit(history)
    /\ callbacks' = << >>
    /\ UNCHANGED <<book_vars, clock, incoming_orders, risk_approved_orders,
                   trade_notifications, engine_running, stopped, worker_threads,
                   market_data_gateway, strategies, statistics, stop_pc,
                   component_vars>>

\* a trade is reported: update_position, then update_reference_price, as the trade
\* worker calls them
ReportTrade ==
    /\ \E t \in RiskTrades :
          /\ TrackerOf(risk_manager.positions, t.symbol_id).total_volume + t.quantity
                <= MaxRiskVolume
          /\ \E p \in update_position(TrackerOf(risk_manager.positions, t.symbol_id), t) :
                risk_manager' =
                    [risk_manager EXCEPT
                        !.positions = MapPut(@, t.symbol_id, p),
                        !.reference_prices = update_reference_price(@, t.symbol_id, t.price)]
          /\ last_call' = [op |-> "update_position", trade |-> t]
    /\ result' = [ret |-> FALSE]
    /\ callbacks' = << >>
    /\ UNCHANGED <<book_vars, clock, incoming_orders, risk_approved_orders,
                   trade_notifications, engine_running, stopped, worker_threads,
                   market_data_gateway, strategies, statistics, stop_pc, history,
                   component_vars>>

\* time passes: the hardware timestamp grows
AdvanceClock ==
    /\ \E d \in 1..MaxClock : clock + d <= MaxClock /\ clock' = clock + d
    /\ last_call' = [op |-> "tick"]
    /\ result' = [ret |-> FALSE]
    /\ callbacks' = << >>
    /\ UNCHANGED <<book_vars, risk_manager, incoming_orders, risk_approved_orders,
                   trade_notifications, engine_running, stopped, worker_threads,
                   market_data_gateway, strategies, statistics, stop_pc, history,
                   component_vars>>

\* A RiskManager built either after TimestampManager::initialize() (stamp = the clock) or
\* before it, as the TradingEngine constructor does.
InitRisk == (\E stamp \in {0, FallbackStamp} : Constructed(stamp)) /\ queues = NoQueue

NextRisk == CheckOrder \/ ReportTrade \/ AdvanceClock

SpecRisk == InitRisk /\ [][NextRisk]_vars

\* ------------------------------------------------------ engine/trading_engine.h
\* the worker loops, in the order start_worker_threads creates their threads
WorkerLoops ==
    <<"order_processing_loop", "risk_processing_loop",
      "strategy_processing_loop", "trade_notification_loop">>

\* where the thread running `loop` is: "none" before start(), "loop" at the test of its
\* while loop, "ticks" and "trades" inside process_signals, then "exited" and "joined"
WorkerAt(loop) ==
    IF \E i \in DOMAIN worker_threads : worker_threads[i].loop = loop
    THEN (CHOOSE w \in {worker_threads[i] : i \in DOMAIN worker_threads} : w.loop = loop).at
    ELSE "none"

MoveWorker(loop, at) ==
    [i \in DOMAIN worker_threads |->
        IF worker_threads[i].loop = loop THEN [worker_threads[i] EXCEPT !.at = at]
        ELSE worker_threads[i]]

\* the orders a client submits as its n-th: it numbers its orders and stamps them with a
\* growing clock reading
ClientOrders(n) ==
    {Order(n, side, <<"Limit", "Gtc">>, price, qty, n) :
        side \in Sides, price \in ClientPrices, qty \in Quantities}

\* the record of the last call into the engine, which the threads' own steps leave alone
call_vars == <<last_call, result, callbacks>>

\* the variables no worker of the order pipeline touches
lifecycle_vars == <<engine_running, stopped, market_data_gateway, stop_pc,
                    component_vars>>

\* TradingEngine::start, called once by the controlling thread, before any stop()
start ==
    /\ ~engine_running /\ ~stopped /\ worker_threads = << >> /\ stop_pc = "idle"
    /\ engine_running' = TRUE
    /\ market_data_gateway' = [market_data_gateway EXCEPT !.gateway_running = TRUE,
                                                          !.receiver_thread = "loop"]
    /\ worker_threads' = [i \in 1..Len(WorkerLoops) |-> [loop |-> WorkerLoops[i], at |-> "loop"]]
    /\ last_call' = [op |-> "start"]
    /\ result' = [ret |-> TRUE]
    /\ callbacks' = << >>
    /\ UNCHANGED <<book_vars, risk_manager, clock, incoming_orders, risk_approved_orders,
                   trade_notifications, stopped, strategies, statistics, stop_pc, history,
                   component_vars>>

\* TradingEngine::submit_order
submit_order(order) ==
    LET push == try_push(incoming_orders, order)
    IN /\ statistics' = [statistics EXCEPT !.orders_received = @ + 1]
       /\ incoming_orders' = push.q
       /\ last_call' = [op |-> "submit_order", order |-> order]
       /\ result' = [ret |-> push.ok]
       /\ callbacks' = << >>
       /\ history' = IF push.ok THEN [history EXCEPT !.submitted = Append(@, order)]
                     ELSE history

\* a client thread submits its next order
SubmitOrder ==
    /\ statistics.orders_received < MaxSubmits
    /\ \E o \in ClientOrders(statistics.orders_received + 1) : submit_order(o)
    /\ UNCHANGED <<book_vars, risk_manager, clock, risk_approved_orders,
                   trade_notifications, worker_threads, strategies, lifecycle_vars>>

\* one iteration of TradingEngine::risk_processing_loop that finds an order
risk_processing_loop ==
    /\ WorkerAt("risk_processing_loop") = "loop" /\ engine_running
    /\ LET pop == try_pop(incoming_orders)
       IN /\ pop.ok
          /\ incoming_orders' = pop.q
          /\ LET order == pop.item
                 risk_result == check_order(order, risk_manager, clock)
                 push == try_push(risk_approved_orders, order)
                 rejected_order == [order EXCEPT !.status = "Rejected"]
                 checked == [Credit(history) EXCEPT !.checked = Append(@, order)]
             IN /\ risk_manager' = risk_result.rm
                /\ last_call' = [op |-> "check_order", order |-> order]
                /\ result' = [ret |-> risk_result.ret]
                /\ IF risk_result.ret = "approved"
                   THEN /\ risk_approved_orders' = push.q
                        /\ statistics' = IF push.ok THEN statistics
                                         ELSE [statistics EXCEPT !.orders_rejected = @ + 1]
                        /\ history' = IF push.ok
                                      THEN [checked EXCEPT !.forwarded = Append(@, order)]
                                      ELSE checked
                   ELSE /\ UNCHANGED risk_approved_orders
                        /\ statistics' = [statistics EXCEPT !.orders_rejected = @ + 1]
                        /\ history' = [checked EXCEPT !.updates = Append(@, rejected_order)]
    /\ callbacks' = << >>
    /\ UNCHANGED <<book_vars, clock, trade_notifications, worker_threads, strategies,
                   lifecycle_vars>>

\* order_processing_loop, the loop over result.trades: a trade the queue refuses is dropped
RECURSIVE PushTrades(_, _)
PushTrades(q, trades) ==
    IF trades = << >> THEN q
    ELSE PushTrades(mpsc_try_push(q, Head(trades)).q, Tail(trades))

\* StrategyBase::on_trade for every trade, on a strategy of the trades' symbol
RECURSIVE on_trades(_, _)
on_trades(strategy, trades) ==
    IF trades = << >> THEN strategy
    ELSE on_trades([strategy EXCEPT !.trade_queue = try_push(@, Head(trades)).q],
                   Tail(trades))

\* the orders of the order_update events among the callbacks of a call
RECURSIVE UpdatedOrders(_)
UpdatedOrders(cbs) ==
    IF cbs = << >> THEN << >>
    ELSE (IF Head(cbs).kind = "order_update" THEN <<Head(cbs).order>> ELSE << >>)
            \o UpdatedOrders(Tail(cbs))

\* one iteration of TradingEngine::order_processing_loop that finds an order; the trade
\* callback (on_trade_executed) runs inside process_order
order_processing_loop ==
    /\ WorkerAt("order_processing_loop") = "loop" /\ engine_running
    /\ LET pop == try_pop(risk_approved_orders)
       IN /\ pop.ok
          /\ risk_approved_orders' = pop.q
          /\ process_order(pop.item)
          /\ statistics' = [statistics EXCEPT !.orders_processed = @ + 1]
          /\ trade_notifications' = PushTrades(trade_notifications, result'.trades)
          /\ strategies' = [i \in DOMAIN strategies |->
                                on_trades(strategies[i], result'.trades)]
          /\ history' = [history EXCEPT !.processed = Append(@, pop.item),
                                        !.emitted = @ \o result'.trades,
                                        !.updates = @ \o UpdatedOrders(callbacks')]
    /\ UNCHANGED <<risk_manager, clock, incoming_orders, worker_threads, lifecycle_vars>>

\* one iteration of TradingEngine::trade_notification_loop that finds a trade
trade_notification_loop ==
    /\ WorkerAt("trade_notification_loop") = "loop" /\ engine_running
    /\ LET pop == mpsc_try_pop(trade_notifications)
       IN /\ pop.ok
          /\ trade_notifications' = pop.q
          /\ \E p \in update_position(TrackerOf(risk_manager.positions, pop.item.symbol_id),
                                      pop.item) :
                risk_manager' =
                    [risk_manager EXCEPT
                        !.positions = MapPut(@, pop.item.symbol_id, p),
                        !.reference_prices =
                            update_reference_price(@, pop.item.symbol_id, pop.item.price)]
          /\ statistics' = [statistics EXCEPT !.trades_executed = @ + 1]
          /\ history' = [history EXCEPT !.observed = Append(@, pop.item)]
          /\ last_call' = [op |-> "update_position", trade |-> pop.item]
    /\ result' = [ret |-> FALSE]
    /\ callbacks' = << >>
    /\ UNCHANGED <<book_vars, clock, incoming_orders, risk_approved_orders, worker_threads,
                   strategies, lifecycle_vars>>

\* TradingEngine::cancel_order, called by a client thread for an order that rests in the
\* book (the call for an unknown id is part of Next)
CancelOrder ==
    /\ \E id \in DOMAIN order_lookup : cancel_order(id)
    /\ history' = [history EXCEPT !.updates = @ \o UpdatedOrders(callbacks'),
                                  !.cancelled = IF result'.ret
                                                THEN Append(@, last_call'.order_id) ELSE @]
    /\ UNCHANGED <<risk_manager, clock, incoming_orders, risk_approved_orders,
                   trade_notifications, worker_threads, strategies, statistics,
                   lifecycle_vars>>

\* the order pipeline of a started engine: clients submit and cancel, the three workers run
NextPipeline ==
    \/ start
    \/ SubmitOrder
    \/ risk_processing_loop
    \/ order_processing_loop
    \/ trade_notification_loop
    \/ CancelOrder

SpecPipeline == Init /\ [][NextPipeline]_vars

\* ------------------------------------------- market_data/gateway.h, stop() and the exits
\* the tick generate_synthetic_data builds for the test symbol
SyntheticTick == [symbol_id |-> 1, price |-> MaxPrice]

\* struct SymbolProcessor, as subscribe_symbol starts it
SymbolProcessor ==
    [running |-> TRUE, processor_thread |-> "loop", tick_queue |-> SPSCQueue(2 ^ TickBits)]

\* StrategyBase(symbol): the strategy's inbound queues and its order id counter
StrategyBase(symbol_id) ==
    [symbol_id |-> symbol_id, tick_queue |-> SPSCQueue(2 ^ TickBits),
     trade_queue |-> SPSCQueue(2 ^ TickBits), order_id |-> 1]

\* the record of one step of stop()
Log(step, of, symbol_id) ==
    [history EXCEPT !.shutdown = Append(@, [step |-> step, of |-> of, symbol_id |-> symbol_id])]

\* the variables of the order pipeline, which the gateway and stop() leave alone
pipeline_vars == <<book_vars, risk_manager, clock, incoming_orders, risk_approved_orders,
                   trade_notifications, statistics>>

\* TradingEngine::add_mean_reversion_strategy with MarketDataGateway::subscribe_symbol,
\* called by the controlling thread for a symbol not yet subscribed, before stop()
add_mean_reversion_strategy ==
    /\ ~stopped
    /\ \E symbol_id \in {1} \ DOMAIN market_data_gateway.processors :
          /\ strategies' = Append(strategies, StrategyBase(symbol_id))
          /\ market_data_gateway' =
                [market_data_gateway EXCEPT !.processors = MapPut(@, symbol_id, SymbolProcessor)]
    /\ UNCHANGED <<call_vars, pipeline_vars, engine_running, stopped, worker_threads, stop_pc,
                   history,
                   component_vars>>

\* one iteration of MarketDataGateway::receiver_loop: the sleep, then
\* generate_synthetic_data and process_incremental_update, which drops the tick when the
\* processor's queue is full (an iteration without a subscription changes nothing)
receiver_loop ==
    /\ market_data_gateway.receiver_thread = "loop"
    /\ market_data_gateway.gateway_running
    /\ market_data_gateway.counter < MaxTicks
    /\ SyntheticTick.symbol_id \in DOMAIN market_data_gateway.processors
    /\ market_data_gateway' =
          [market_data_gateway EXCEPT
              !.counter = @ + 1,
              !.processors[SyntheticTick.symbol_id].tick_queue = try_push(@, SyntheticTick).q]
    /\ UNCHANGED <<call_vars, pipeline_vars, engine_running, stopped,
                   worker_threads, strategies, stop_pc, history,
                   component_vars>>

\* receiver_loop leaving its while loop
receiver_exit ==
    /\ market_data_gateway.receiver_thread = "loop"
    /\ ~market_data_gateway.gateway_running
    /\ market_data_gateway' = [market_data_gateway EXCEPT !.receiver_thread = "exited"]
    /\ UNCHANGED <<call_vars, pipeline_vars, engine_running, stopped, worker_threads, strategies,
                   stop_pc, history,
                   component_vars>>

\* StrategyBase::on_market_data for the strategies of the tick's symbol (on_market_tick)
on_market_tick(tick) ==
    [i \in DOMAIN strategies |->
        IF strategies[i].symbol_id = tick.symbol_id
        THEN [strategies[i] EXCEPT !.tick_queue = try_push(@, tick).q]
        ELSE strategies[i]]

\* one iteration of symbol_processor_loop that finds a tick: process_tick calls the tick
\* callback
symbol_processor_loop(symbol_id) ==
    /\ symbol_id \in DOMAIN market_data_gateway.processors
    /\ LET processor == market_data_gateway.processors[symbol_id]
           pop == try_pop(processor.tick_queue)
       IN /\ processor.processor_thread = "loop" /\ processor.running
          /\ pop.ok
          /\ market_data_gateway' =
                [market_data_gateway EXCEPT !.processors[symbol_id].tick_queue = pop.q]
          /\ strategies' = on_market_tick(pop.item)
    /\ UNCHANGED <<call_vars, pipeline_vars, engine_running, stopped, worker_threads, stop_pc,
                   history,
                   component_vars>>

\* symbol_processor_loop leaving its while loop
symbol_processor_exit(symbol_id) ==
    /\ symbol_id \in DOMAIN market_data_gateway.processors
    /\ market_data_gateway.processors[symbol_id].processor_thread = "loop"
    /\ ~market_data_gateway.processors[symbol_id].running
    /\ market_data_gateway' =
          [market_data_gateway EXCEPT !.processors[symbol_id].processor_thread = "exited"]
    /\ UNCHANGED <<call_vars, pipeline_vars, engine_running, stopped, worker_threads, strategies,
                   stop_pc, history,
                   component_vars>>

\* strategy_processing_loop, the test of the while loop passing: process_signals is entered
\* for the strategy (with no strategy the iteration only sleeps)
strategy_processing_loop ==
    /\ WorkerAt("strategy_processing_loop") = "loop" /\ engine_running
    /\ strategies # << >>
    /\ worker_threads' = MoveWorker("strategy_processing_loop", "ticks")
    /\ UNCHANGED <<call_vars, pipeline_vars, lifecycle_vars, strategies, history>>

\* the orders MeanReversionStrategy::execute_signal can submit for a tick
StrategyOrders(strategy, tick) ==
    {Order(strategy.order_id, side, <<"Limit", "Ioc">>, tick.price, 1, clock) : side \in Sides}

\* process_signals, one round of `while (tick_queue.try_pop(tick)) process_tick(tick)`:
\* the signal depends on the price history, so a tick may or may not lead to an order
process_signals_ticks ==
    /\ WorkerAt("strategy_processing_loop") = "ticks"
    /\ LET pop == try_pop(strategies[1].tick_queue)
       IN IF pop.ok
          THEN \/ /\ strategies' = [strategies EXCEPT ![1].tick_queue = pop.q]
                  /\ UNCHANGED <<incoming_orders, statistics, history, worker_threads,
                                 last_call, result, callbacks>>
               \/ /\ \E o \in StrategyOrders(strategies[1], pop.item) : submit_order(o)
                  /\ strategies' = [strategies EXCEPT ![1].tick_queue = pop.q,
                                                      ![1].order_id = @ + 1]
                  /\ UNCHANGED worker_threads
          ELSE /\ worker_threads' = MoveWorker("strategy_processing_loop", "trades")
               /\ UNCHANGED <<incoming_orders, statistics, history, strategies,
                              last_call, result, callbacks>>
    /\ UNCHANGED <<book_vars, risk_manager, clock, risk_approved_orders, trade_notifications,
                   lifecycle_vars>>

\* process_signals, one round of `while (trade_queue.try_pop(trade)) process_trade(trade)`,
\* and the return to the sleep of strategy_processing_loop (no snapshot is ever queued)
process_signals_trades ==
    /\ WorkerAt("strategy_processing_loop") = "trades"
    /\ LET pop == try_pop(strategies[1].trade_queue)
       IN IF pop.ok
          THEN /\ strategies' = [strategies EXCEPT ![1].trade_queue = pop.q]
               /\ UNCHANGED worker_threads
          ELSE /\ worker_threads' = MoveWorker("strategy_processing_loop", "loop")
               /\ UNCHANGED strategies
    /\ UNCHANGED <<call_vars, pipeline_vars, lifecycle_vars, history>>

\* a worker loop that leaves its while loop only once its inbound queue is drained
worker_exit_when_drained(loop) ==
    /\ WorkerAt(loop) = "loop"
    /\ ~engine_running
    /\ loop = "risk_processing_loop" => size(incoming_orders) = 0
    /\ loop = "order_processing_loop" => size(risk_approved_orders) = 0
    /\ loop = "trade_notification_loop" => trade_notifications.items = << >>
    /\ worker_threads' = MoveWorker(loop, "exited")
    /\ UNCHANGED <<call_vars, pipeline_vars, lifecycle_vars, strategies,
                   history>>

\* a worker loop of the engine leaving its while loop
worker_exit(loop) ==
    /\ WorkerAt(loop) = "loop"
    /\ ~engine_running
    /\ worker_threads' = MoveWorker(loop, "exited")
    /\ UNCHANGED <<call_vars, pipeline_vars, lifecycle_vars, strategies, history>>

\* ---------------------------------------------------------- TradingEngine::stop
\* stop(), the exchange on `stopped`: the first call goes on, a later call returns at once
stop ==
    /\ stop_pc \in {"idle", "done"}
    /\ stopped' = TRUE
    /\ stop_pc' = IF stopped THEN stop_pc ELSE "gateway"
    /\ UNCHANGED <<call_vars, pipeline_vars, engine_running, market_data_gateway, worker_threads,
                   strategies, history, component_vars>>

\* MarketDataGateway::stop, gateway_running.store(false)
stop_gateway ==
    /\ stop_pc = "gateway"
    /\ market_data_gateway' = [market_data_gateway EXCEPT !.gateway_running = FALSE]
    /\ stop_pc' = "processors"
    /\ history' = Log("gateway_running = false", "gateway", 0)
    /\ UNCHANGED <<call_vars, pipeline_vars, engine_running, stopped, worker_threads, strategies,
                   component_vars>>

\* the processors MarketDataGateway::stop has not joined yet
Unjoined == {s \in DOMAIN market_data_gateway.processors :
                market_data_gateway.processors[s].processor_thread # "joined"}

\* MarketDataGateway::stop, the loop over the processors: clear the processor's flag, then
\* join its thread
stop_processors ==
    /\ stop_pc = "processors"
    /\ IF Unjoined = {}
       THEN /\ stop_pc' = "receiver"
            /\ UNCHANGED <<market_data_gateway, history>>
       ELSE LET s == CHOOSE s \in Unjoined : \A t \in Unjoined : s <= t
                processor == market_data_gateway.processors[s]
            IN /\ stop_pc' = stop_pc
               /\ IF processor.running
                  THEN /\ market_data_gateway' =
                            [market_data_gateway EXCEPT !.processors[s].running = FALSE]
                       /\ history' = Log("running = false", "symbol_processor_loop", s)
                  ELSE /\ processor.processor_thread = "exited"
                       /\ market_data_gateway' =
                            [market_data_gateway EXCEPT
                                !.processors[s].processor_thread = "joined"]
                       /\ history' = Log("join", "symbol_processor_loop", s)
    /\ UNCHANGED <<call_vars, pipeline_vars, engine_running, stopped, worker_threads, strategies,
                   component_vars>>

\* MarketDataGateway::stop, receiver_thread.join() when the thread was started
join_receiver ==
    /\ stop_pc = "receiver"
    /\ IF market_data_gateway.receiver_thread = "none"
       THEN UNCHANGED <<market_data_gateway, history>>
       ELSE /\ market_data_gateway.receiver_thread = "exited"
            /\ market_data_gateway' = [market_data_gateway EXCEPT !.receiver_thread = "joined"]
            /\ history' = Log("join", "receiver_loop", 0)
    /\ stop_pc' = "running"
    /\ UNCHANGED <<call_vars, pipeline_vars, engine_running, stopped, worker_threads, strategies,
                   component_vars>>

\* stop(), engine_running.store(false)
clear_running ==
    /\ stop_pc = "running"
    /\ engine_running' = FALSE
    /\ stop_pc' = "join"
    /\ history' = Log("engine_running = false", "engine", 0)
    /\ UNCHANGED <<call_vars, pipeline_vars, stopped, market_data_gateway, worker_threads,
                   strategies,
                   component_vars>>

\* stop(), the loop joining worker_threads[i] in index order, then worker_threads.clear()
join_workers ==
    /\ stop_pc = "join"
    /\ LET unjoined == {i \in DOMAIN worker_threads : worker_threads[i].at # "joined"}
       IN IF unjoined = {}
          THEN /\ worker_threads' = << >>
               /\ stop_pc' = "strategies"
               /\ UNCHANGED history
          ELSE LET i == CHOOSE i \in unjoined : \A j \in unjoined : i <= j
               IN /\ worker_threads[i].at = "exited"
                  /\ worker_threads' = [worker_threads EXCEPT ![i].at = "joined"]
                  /\ stop_pc' = stop_pc
                  /\ history' = Log("join", worker_threads[i].loop, 0)
    /\ UNCHANGED <<call_vars, pipeline_vars, engine_running, stopped, market_data_gateway,
                   strategies,
                   component_vars>>

\* stop(), strategy->shutdown() for each strategy, and the return
shutdown_strategies ==
    /\ stop_pc = "strategies"
    /\ stop_pc' = "done"
    /\ history' = [history EXCEPT !.shutdown =
                      @ \o [i \in DOMAIN strategies |->
                               [step |-> "shutdown", of |-> "strategy",
                                symbol_id |-> strategies[i].symbol_id]]]
    /\ UNCHANGED <<call_vars, pipeline_vars, engine_running, stopped, market_data_gateway,
                   worker_threads, strategies,
                   component_vars>>

\* the n-th order main() submits: buys and sells in turn, numbered from 1
MainOrder(n) ==
    Order(n, IF n % 2 = 1 THEN "Buy" ELSE "Sell", <<"Limit", "Gtc">>, MaxPrice, 1, n)

\* the controlling thread submits the next of its few orders, as main() does between
\* start() and stop()
ClientSubmit ==
    /\ engine_running /\ ~stopped
    /\ statistics.orders_received < MaxShutdownSubmits
    /\ submit_order(MainOrder(statistics.orders_received + 1))
    /\ UNCHANGED <<book_vars, risk_manager, clock, risk_approved_orders,
                   trade_notifications, worker_threads, strategies, lifecycle_vars>>

\* the threads of the engine
GatewayThreads ==
    \/ receiver_loop
    \/ receiver_exit
    \/ \E s \in DOMAIN market_data_gateway.processors : symbol_processor_loop(s)
    \/ \E s \in DOMAIN market_data_gateway.processors : symbol_processor_exit(s)

StrategyThread ==
    \/ strategy_processing_loop
    \/ process_signals_ticks
    \/ process_signals_trades

StopThread ==
    \/ stop
    \/ stop_gateway
    \/ stop_processors
    \/ join_receiver
    \/ clear_running
    \/ join_workers
    \/ shutdown_strategies

\* the whole engine from construction to the return of stop()
NextShutdown ==
    \/ start
    \/ add_mean_reversion_strategy
    \/ ClientSubmit
    \/ risk_processing_loop
    \/ order_processing_loop
    \/ trade_notification_loop
    \/ GatewayThreads
    \/ StrategyThread
    \/ \E loop \in {WorkerLoops[i] : i \in DOMAIN WorkerLoops} : worker_exit(loop)
    \/ StopThread

SpecShutdown == Init /\ [][NextShutdown]_vars

\* fair scheduling of the threads: a thread that can take a step eventually takes one
FairScheduling ==
    /\ WF_vars(StopThread)
    /\ WF_vars(receiver_loop \/ receiver_exit)
    /\ \A s \in {SyntheticTick.symbol_id} :
          WF_vars(symbol_processor_loop(s) \/ symbol_processor_exit(s))
    /\ WF_vars(StrategyThread \/ worker_exit("strategy_processing_loop"))
    /\ WF_vars(order_processing_loop \/ worker_exit("order_processing_loop"))
    /\ WF_vars(risk_processing_loop \/ worker_exit("risk_processing_loop"))
    /\ WF_vars(trade_notification_loop \/ worker_exit("trade_notification_loop"))

SpecShutdownFair == SpecShutdown /\ FairScheduling

\* ---------------------------------------------------------------- claims C11-C20
\* the number of terminal updates (status among `statuses`) reported for order id
TerminalUpdates(id, statuses) ==
    Cardinality({u \in 1..Len(history.updates) :
                    /\ history.updates[u].orderID = id
                    /\ history.updates[u].status \in statuses})

\* the orders the risk worker took from the inbound queue and did not pass on
NotForwarded ==
    {history.checked[k] : k \in 1..Len(history.checked)}
        \ {history.forwarded[k] : k \in 1..Len(history.forwarded)}

\* C11: no silent drops.  Every accepted client order that the risk worker did not pass on
\* to the matching engine (a risk check rejected it, or the risk-approved queue was full)
\* has exactly one on_order_update with status Rejected, and every cancelled order has
\* exactly one on_order_update with status Cancelled.
NoSilentDrops ==
    /\ \A o \in NotForwarded : TerminalUpdates(o.orderID, {"Rejected"}) = 1
    /\ \A k \in 1..Len(history.cancelled) :
          TerminalUpdates(history.cancelled[k], {"Cancelled"}) = 1

\* C12: submit_order returns false if and only if the inbound queue is full (it holds
\* capacity() items); when it returns false the queue is unchanged, and when it returns
\* true the order is the newest item the risk worker will pop.
SubmitContract ==
    [][statistics'.orders_received = statistics.orders_received + 1 =>
        /\ last_call'.op = "submit_order"
        /\ (result'.ret = FALSE) <=> (size(incoming_orders) = capacity(incoming_orders))
        /\ ~result'.ret => incoming_orders' = incoming_orders
        /\ result'.ret => Contents(incoming_orders')
                            = Append(Contents(incoming_orders), last_call'.order)]_vars

\* a submit_order call has found the inbound queue full and returned false
SubmitContractWitness ==
    /\ last_call.op = "submit_order"
    /\ result.ret = FALSE
    /\ Len(Contents(incoming_orders)) = capacity(incoming_orders)
    /\ Len(history.submitted) = capacity(incoming_orders)

RECURSIVE IsSubseq(_, _)
\* a is b with some elements left out, the rest in b's order
IsSubseq(a, b) ==
    IF a = << >> THEN TRUE
    ELSE IF b = << >> THEN FALSE
    ELSE IF Head(a) = Head(b) THEN IsSubseq(Tail(a), Tail(b))
    ELSE IsSubseq(a, Tail(b))

\* a is the beginning of b
IsPrefix(a, b) == Len(a) <= Len(b) /\ a = SubSeq(b, 1, Len(a))

RECURSIVE SignedQuantity(_)
\* the sum of the quantities of trades, buys of the aggressor counted positive
SignedQuantity(trades) ==
    IF trades = << >> THEN 0
    ELSE (IF Head(trades).aggressor_side = "Buy" THEN Head(trades).quantity
          ELSE -Head(trades).quantity) + SignedQuantity(Tail(trades))

RiskChecks(order, rm, now) ==
    LET limiters == get_or_create_symbol_limiter(rm.symbol_rate_limiters, order.symbolID, now)
        position == TrackerOf(rm.positions, order.symbolID)
        position_change == IF order.side = "Buy" THEN order.quantity ELSE -order.quantity
        new_position == position.current_position + position_change
    IN << [reason |-> "rejected_rate_limit",
           fails |-> refill(rm.global_rate_limiter, now).tokens = 0],
          [reason |-> "rejected_rate_limit",
           fails |-> refill(limiters[order.symbolID], now).tokens = 0],
          [reason |-> "rejected_order_size",
           fails |-> order.quantity > max_order_size],
          [reason |-> "rejected_price_limit",
           fails |-> ~check_price_deviation(rm.reference_prices, order)],
          [reason |-> "rejected_position_limit",
           fails |-> Abs(new_position) > max_position],
          [reason |-> "rejected_notional_limit",
           fails |-> /\ new_position * position_change > 0
                     /\ position.current_notional
                            + calculate_notional(order.price, order.quantity) > max_notional],
          [reason |-> "rejected_loss_limit",
           fails |-> position.realized_pnl < -max_loss_per_day] >>

\* the reason of the first failing check, "approved" when none fails
FirstFailure(checks) ==
    IF \A k \in 1..Len(checks) : ~checks[k].fails THEN "approved"
    ELSE checks[MinKey({k \in 1..Len(checks) : checks[k].fails})].reason

\* C15: check_order returns the rejection reason of the first failing check in the order
\* global rate limit, per-symbol rate limit, order size, price deviation, position limit,
\* notional limit, loss limit, and approved if and only if all seven pass.
CheckOrderShortCircuit ==
    [][last_call'.op = "check_order" =>
        result'.ret = FirstFailure(RiskChecks(last_call'.order, risk_manager, clock))]_vars

\* an order that is too large has been rejected for the rate limit, the earlier check
CheckOrderWitness ==
    /\ last_call.op = "check_order"
    /\ result.ret = "rejected_rate_limit"
    /\ last_call.order.quantity > max_order_size

\* the rate limiters of the risk manager: the global one and one per symbol seen
Limiters ==
    {risk_manager.global_rate_limiter}
        \cup {risk_manager.symbol_rate_limiters[s] : s \in DOMAIN risk_manager.symbol_rate_limiters}

\* C16: in every reachable state every rate limiter, the global one and the per-symbol
\* ones from their construction on, holds between 0 and bucket_size tokens.
TokenBucketBound ==
    \A l \in Limiters : 0 <= l.tokens /\ l.tokens <= l.bucket_size

\* C17: over the interval from the construction of the global limiter (clock 0) to a
\* check_order call at the present clock reading, whatever calls were made in between, the
\* tokens credited to the bucket are floor(elapsed seconds * refill_rate) unless the bucket
\* size cut a credit short.  Stated for a limiter whose stamp was read from the same clock.
RefillExact ==
    (/\ last_call.op = "check_order"
     /\ risk_manager.global_rate_limiter.last_refill_time <= clock
     /\ ~history.clamped)
    => history.credited
         = (clock * risk_manager.global_rate_limiter.refill_rate) \div tsc_frequency

\* the positions a second run can stand at
PositionRange == (-2 * max_position)..(2 * max_position)

\* the risk manager state rm with the symbol's position set to p
WithPosition(rm, symbol_id, p) ==
    [rm EXCEPT !.positions =
        MapPut(@, symbol_id, [TrackerOf(@, symbol_id) EXCEPT !.current_position = p])]

\* C18: risk monotonicity.  When check_order rejects an order for the position limit at
\* position P, a second run in the same state but at a position P2 of the same sign and
\* larger size rejects it too, and leaves the rate limiters as the first run does (so the
\* two runs stay side by side over a sequence of orders).
RiskMonotonicity ==
    [][(last_call'.op = "check_order" /\ result'.ret = "rejected_position_limit") =>
        LET order == last_call'.order
            P == TrackerOf(risk_manager.positions, order.symbolID).current_position
        IN \A P2 \in PositionRange :
              (P2 * P > 0 /\ Abs(P2) > Abs(P)) =>
                 LET second == check_order(order, WithPosition(risk_manager, order.symbolID, P2),
                                           clock)
                 IN /\ second.ret # "approved"
                    /\ second.rm.global_rate_limiter = risk_manager'.global_rate_limiter
                    /\ second.rm.symbol_rate_limiters = risk_manager'.symbol_rate_limiters]_vars

\* an order has been rejected for the position limit at a position that is not flat and
\* not yet the largest a second run can stand at
RiskMonotonicityWitness ==
    /\ last_call.op = "check_order"
    /\ result.ret = "rejected_position_limit"
    /\ LET P == TrackerOf(risk_manager.positions, last_call.order.symbolID).current_position
       IN P # 0 /\ \E P2 \in PositionRange : P2 * P > 0 /\ Abs(P2) > Abs(P)

\* the steps of kind `step` among those stop() has made, in the order it made them
StepsOf(step) ==
    LET RECURSIVE Pick(_)
        Pick(log) == IF log = << >> THEN << >>
                     ELSE (IF Head(log).step = step
                           THEN <<<<Head(log).of, Head(log).symbol_id>>>> ELSE << >>)
                              \o Pick(Tail(log))
    IN Pick(history.shutdown)

\* the place of the first step of kind `step` in the record of stop(), 0 when there is none
PlaceOf(step) ==
    IF \E i \in DOMAIN history.shutdown : history.shutdown[i].step = step
    THEN CHOOSE i \in DOMAIN history.shutdown :
            /\ history.shutdown[i].step = step
            /\ \A j \in 1..(i - 1) : history.shutdown[j].step # step
    ELSE 0

\* the join order the shutdown contract gives: the receiver, the per-symbol processors,
\* the matcher, the risk gate, the trade fan-out, the strategy worker
ContractJoinOrder ==
    <<<<"receiver_loop", 0>>, <<"symbol_processor_loop", SyntheticTick.symbol_id>>,
      <<"order_processing_loop", 0>>, <<"risk_processing_loop", 0>>,
      <<"trade_notification_loop", 0>>, <<"strategy_processing_loop", 0>>>>

\* C19: shutdown sequence.  When stop() has returned it has stopped the market-data
\* ingress, then cleared the running flag, then joined the threads that were started in
\* the order receiver, per-symbol processors, matcher, risk gate, trade fan-out, strategy
\* worker, and last called shutdown on each strategy.
ShutdownSequence ==
    stop_pc = "done" =>
        LET log == history.shutdown
            joined == StepsOf("join")
            Joined(t) == \E i \in DOMAIN joined : joined[i] = t
        IN /\ 0 < PlaceOf("gateway_running = false")
           /\ PlaceOf("gateway_running = false") < PlaceOf("engine_running = false")
           /\ \A i \in DOMAIN log :
                 log[i].step = "join" => PlaceOf("engine_running = false") < i
           /\ joined = SelectSeq(ContractJoinOrder, Joined)
           /\ \A i, j \in DOMAIN log :
                 (log[i].step = "join" /\ log[j].step = "shutdown") => i < j
           /\ StepsOf("shutdown") =
                 [i \in DOMAIN strategies |-> <<"strategy", strategies[i].symbol_id>>]

\* stop() has returned and every thread that was started has been joined
AllJoined ==
    /\ stop_pc = "done"
    /\ worker_threads = << >>
    /\ market_data_gateway.receiver_thread \in {"none", "joined"}
    /\ \A s \in DOMAIN market_data_gateway.processors :
          market_data_gateway.processors[s].processor_thread = "joined"

\* C20: cooperative termination.  Under fair scheduling, once stop() is called every
\* worker exits and stop() returns with all workers joined, whatever the queues hold.
CooperativeTermination == stopped ~> AllJoined

\* stop() has returned after joining the receiver, a processor and the four workers,
\* leaving an order in the inbound queue and a tick in a tick queue
CooperativeTerminationWitness ==
    /\ AllJoined
    /\ Len(StepsOf("join")) = Len(ContractJoinOrder)
    /\ size(incoming_orders) > 0
    /\ \E s \in DOMAIN market_data_gateway.processors :
          size(market_data_gateway.processors[s].tick_queue) > 0

\* ---------------------------------------------------------------- claims C21-C30
\* C28: aggressor side.  Every trade a process_order call emits names the side of the
\* incoming order as its aggressor, whatever the timestamps of the two orders.
AggressorSide ==
    last_call.op = "process_order" =>
        \A i \in DOMAIN result.trades :
            result.trades[i].aggressor_side = last_call.order.side


\* ---------------------------------------------------------------- the order book at work
BookPrices == (1..MaxBookPrice) \cup {UINT64_MAX}
BookQuantities == 0..MaxBookQty

\* OrderBook::update_level, up to the release of the side's lock; one thread writes a book
update_level(side, price, quantity) ==
    /\ order_book.writer = "idle"
    /\ order_book.version < MaxVersion
    /\ order_book' =
           [order_book EXCEPT
               !.bids = IF side = "Buy" THEN update_side(@, price, quantity, TRUE) ELSE @,
               !.asks = IF side = "Buy" THEN @ ELSE update_side(@, price, quantity, FALSE),
               !.writer = "publish"]
    /\ last_call' = [op |-> "update_level", side |-> side, price |-> price,
                     quantity |-> quantity,
                     before |-> IF side = "Buy" THEN order_book.bids ELSE order_book.asks]
    /\ result' = [ret |-> FALSE]
    /\ callbacks' = << >>
    /\ UNCHANGED <<book_vars, risk_manager, clock, incoming_orders, risk_approved_orders,
                   trade_notifications, engine_running, stopped, worker_threads,
                   market_data_gateway, strategies, statistics, stop_pc, history,
                   inside, queues>>

\* OrderBook::update_level, after the lock: update_best_prices() and version.fetch_add(1)
update_level_publish ==
    /\ order_book.writer = "publish"
    /\ order_book' = [update_best_prices(order_book) EXCEPT !.version = (@ + 1) % Word,
                                                           !.writer = "idle"]
    /\ UNCHANGED <<book_vars, call_vars, risk_manager, clock, incoming_orders,
                   risk_approved_orders, trade_notifications, engine_running, stopped,
                   worker_threads, market_data_gateway, strategies, statistics, stop_pc,
                   history, inside, queues>>

NextBook ==
    \/ \E side \in Sides, price \in BookPrices, quantity \in BookQuantities :
           update_level(side, price, quantity)
    \/ update_level_publish

SpecBook == Init /\ [][NextBook]_vars

\* the side the last update_level call worked on
UpdatedSide == IF last_call.side = "Buy" THEN order_book.bids ELSE order_book.asks

\* the levels of a side: strictly sorted, best price first
StrictlySorted(levels, is_bid_side) ==
    \A i \in 1..Len(levels) - 1 :
        IF is_bid_side THEN levels[i].price > levels[i + 1].price
        ELSE levels[i].price < levels[i + 1].price

\* the levels at a price
LevelsAt(levels, price) == {i \in 1..Len(levels) : levels[i].price = price}

\* the levels at other prices, in order
OtherLevels(levels, price) == SelectSeq(levels, LAMBDA l : l.price # price)

DropPolicy ==
    (/\ last_call.op = "update_level"
     /\ level_count(last_call.before) >= MaxLevels
     /\ LevelsAt(last_call.before.levels, last_call.price) = {}
     /\ last_call.quantity > 0
     /\ UpdatedSide = last_call.before) =>
        LET worst == last_call.before.levels[level_count(last_call.before)].price
        IN  IF last_call.side = "Buy" THEN last_call.price < worst
            ELSE last_call.price > worst

\* C29: the book invariant.  Each side is strictly sorted, holds no level of quantity 0
\* and at most MaxLevels levels, and price_to_index maps exactly the stored prices, each
\* to its position.
SideInvariant(book_side, is_bid_side) ==
    /\ StrictlySorted(book_side.levels, is_bid_side)
    /\ \A i \in 1..level_count(book_side) : book_side.levels[i].quantity > 0
    /\ level_count(book_side) <= MaxLevels
    /\ DOMAIN book_side.price_to_index
           = {book_side.levels[i].price : i \in 1..level_count(book_side)}
    /\ \A i \in 1..level_count(book_side) :
           book_side.price_to_index[book_side.levels[i].price] = i - 1

BookInvariant ==
    SideInvariant(order_book.bids, TRUE) /\ SideInvariant(order_book.asks, FALSE)

\* the best of two bids was removed and the other moved up
BookInvariantWitness ==
    /\ last_call.op = "update_level" /\ last_call.side = "Buy" /\ last_call.quantity = 0
    /\ level_count(last_call.before) = 2
    /\ last_call.before.levels[1].price = last_call.price
    /\ level_count(order_book.bids) = 1

\* C30: publication of the best prices.  When update_level returns, get_best_bid is the
\* price of the first bid (0 without bids), get_best_ask the price of the first ask (0
\* without asks), the published quantities are those levels' quantities and version is
\* greater than it was; version never decreases.
BestPricePublication ==
    [][/\ order_book'.version >= order_book.version
       /\ (order_book.writer = "publish" /\ order_book'.writer = "idle") =>
              LET bids == order_book'.bids.levels
                  asks == order_book'.asks.levels
              IN  /\ get_best_bid(order_book') = IF bids = << >> THEN 0 ELSE bids[1].price
                  /\ get_best_ask(order_book') = IF asks = << >> THEN 0 ELSE asks[1].price
                  /\ order_book'.best_bid_qty
                         = IF bids = << >> THEN 0 ELSE bids[1].quantity
                  /\ order_book'.best_ask_qty
                         = IF asks = << >> THEN 0 ELSE asks[1].quantity
                  /\ order_book'.version > order_book.version]_vars


\* ------------------------------------------------- the threads inside the matching engine
\* A call into the matching engine takes time: a thread enters it and leaves it.  The
\* engine holds no lock, so a call's effect on the book is placed at the step that leaves
\* it; two calls under way at once race on the book and order_lookup.
engine_state == <<engine_running, stopped, market_data_gateway, stop_pc, order_book, queues>>

\* the calling thread submits the next order; it is not inside cancel_order then
CallerSubmit ==
    /\ engine_running /\ ~stopped
    /\ inside.cancel_order = << >>
    /\ statistics.orders_received < MaxCallerSubmits
    /\ submit_order(MainOrder(statistics.orders_received + 1))
    /\ UNCHANGED <<book_vars, risk_manager, clock, risk_approved_orders,
                   trade_notifications, worker_threads, strategies, lifecycle_vars>>

\* TradingEngine::order_processing_loop: the matcher worker pops an order and calls
\* matching_engine->process_order(order)
enter_process_order ==
    /\ WorkerAt("order_processing_loop") = "loop" /\ engine_running
    /\ inside.process_order = << >>
    /\ LET pop == try_pop(risk_approved_orders)
       IN /\ pop.ok
          /\ risk_approved_orders' = pop.q
          /\ inside' = [inside EXCEPT !.process_order = <<pop.item>>]
    /\ UNCHANGED <<book_vars, call_vars, risk_manager, clock, incoming_orders,
                   trade_notifications, worker_threads, strategies, statistics, history,
                   engine_state>>

\* TradingEngine::order_processing_loop: process_order returns and the rest of the
\* iteration follows
leave_process_order ==
    /\ inside.process_order # << >>
    /\ process_order(inside.process_order[1])
    /\ inside' = [inside EXCEPT !.process_order = << >>]
    /\ statistics' = [statistics EXCEPT !.orders_processed = @ + 1]
    /\ trade_notifications' = PushTrades(trade_notifications, result'.trades)
    /\ strategies' = [i \in DOMAIN strategies |-> on_trades(strategies[i], result'.trades)]
    /\ history' = [history EXCEPT !.processed = Append(@, inside.process_order[1]),
                                  !.emitted = @ \o result'.trades,
                                  !.updates = @ \o UpdatedOrders(callbacks')]
    /\ UNCHANGED <<risk_manager, clock, incoming_orders, risk_approved_orders,
                   worker_threads, engine_state>>

\* TradingEngine::cancel_order, called on the caller's own thread (or by a strategy's
\* cancel callback on the strategy thread): it calls matching_engine->cancel_order(order_id)
enter_cancel_order(order_id) ==
    /\ engine_running
    /\ inside.cancel_order = << >>
    /\ inside' = [inside EXCEPT !.cancel_order = <<order_id>>]
    /\ UNCHANGED <<book_vars, call_vars, pipeline_vars, worker_threads, strategies,
                   history, engine_state>>

\* TradingEngine::cancel_order: matching_engine->cancel_order returns
leave_cancel_order ==
    /\ inside.cancel_order # << >>
    /\ cancel_order(inside.cancel_order[1])
    /\ inside' = [inside EXCEPT !.cancel_order = << >>]
    /\ history' = [history EXCEPT !.updates = @ \o UpdatedOrders(callbacks'),
                                  !.cancelled = IF result'.ret
                                                THEN Append(@, last_call'.order_id) ELSE @]
    /\ UNCHANGED <<risk_manager, clock, incoming_orders, risk_approved_orders,
                   trade_notifications, worker_threads, strategies, statistics,
                   engine_state>>

NextThreads ==
    \/ start
    \/ CallerSubmit
    \/ risk_processing_loop
    \/ enter_process_order
    \/ leave_process_order
    \/ \E order_id \in OrderIDs : enter_cancel_order(order_id)
    \/ leave_cancel_order
    \/ trade_notification_loop

SpecThreads == Init /\ [][NextThreads]_vars

\* C27: the matching engine is single-threaded.  While the engine runs, at most one thread
\* is inside the matching engine: process_order on the matcher worker and cancel_order on
\* a caller's thread are never under way at the same time.
SingleThreadedMatching ==
    engine_running => Len(inside.process_order) + Len(inside.cancel_order) <= 1


\* ---------------------------------------------------- core/queue.h, one step at a time
\* Each load, store and read-modify-write of an atomic is a step of the thread that makes
\* it.  A thread record holds pc (where the thread is) and the locals of the call under
\* way.  `pushed` lists the items whose try_push returned true, `popped` the items try_pop
\* handed out, `refused` the calls that returned false so far.
\* SPSCQueue<int, Size> with one producer offering the items 1, 2, ... and one consumer
SPSCQueueThreads ==
    [kind |-> "SPSCQueue",
     q |-> [SPSCQueue(2 ^ RingBits) EXCEPT !.buffer = [i \in DOMAIN @ |-> 0]],
     producer |-> [pc |-> "idle", item |-> 1, current_tail |-> 0, next_tail |-> 0],
     consumer |-> [pc |-> "idle", current_head |-> 0, item |-> 0],
     pushed |-> << >>, popped |-> << >>,
     refused |-> [try_push |-> FALSE, try_pop |-> FALSE]]

rest_of_engine == <<book_vars, call_vars, pipeline_vars, worker_threads, strategies,
                    history, engine_running, stopped, market_data_gateway, stop_pc,
                    inside, order_book>>

\* the full test of try_push, mutated: the ring never counts as full
ring_never_full(next_tail, head) == FALSE

\* SPSCQueue::try_push, the full test next_tail == head
ring_full(next_tail, head) == next_tail = head

\* SPSCQueue::try_push, the steps of the producer
SPSCQueue_try_push ==
    LET t == queues.producer
        Size == QueueSizeOf(queues.q)
    IN  /\ queues.kind = "SPSCQueue"
        /\ \/ /\ t.pc = "idle" /\ t.item <= MaxItems
              /\ queues' = [queues EXCEPT
                     !.producer.pc = "load_head",
                     !.producer.current_tail = queues.q.tail,
                     !.producer.next_tail = (queues.q.tail + 1) % Size]
           \/ /\ t.pc = "load_head" /\ ring_full(t.next_tail, queues.q.head)
              /\ queues' = [queues EXCEPT !.producer.pc = "idle",
                                          !.refused.try_push = TRUE]
           \/ /\ t.pc = "load_head" /\ ~ring_full(t.next_tail, queues.q.head)
              /\ queues' = [queues EXCEPT !.producer.pc = "write"]
           \/ /\ t.pc = "write"
              /\ queues' = [queues EXCEPT !.producer.pc = "store_tail",
                                          !.q.buffer[t.current_tail] = t.item]
           \/ /\ t.pc = "store_tail"
              /\ queues' = [queues EXCEPT !.producer.pc = "idle",
                                          !.producer.item = @ + 1,
                                          !.q.tail = t.next_tail,
                                          !.pushed = Append(@, t.item)]
        /\ UNCHANGED rest_of_engine

\* SPSCQueue::try_pop, the steps of the consumer
SPSCQueue_try_pop ==
    LET t == queues.consumer
        Size == QueueSizeOf(queues.q)
    IN  /\ queues.kind = "SPSCQueue"
        /\ \/ /\ t.pc = "idle"
              /\ queues' = [queues EXCEPT !.consumer.pc = "load_tail",
                                          !.consumer.current_head = queues.q.head]
           \/ /\ t.pc = "load_tail" /\ t.current_head = queues.q.tail
              /\ queues' = [queues EXCEPT !.consumer.pc = "idle",
                                          !.refused.try_pop = TRUE]
           \/ /\ t.pc = "load_tail" /\ t.current_head # queues.q.tail
              /\ queues' = [queues EXCEPT !.consumer.pc = "read"]
           \/ /\ t.pc = "read"
              /\ queues' = [queues EXCEPT !.consumer.pc = "store_head",
                                          !.consumer.item = queues.q.buffer[t.current_head]]
           \/ /\ t.pc = "store_head"
              /\ queues' = [queues EXCEPT !.consumer.pc = "idle",
                                          !.q.head = (t.current_head + 1) % Size,
                                          !.popped = Append(@, t.item)]
        /\ UNCHANGED rest_of_engine

InitSPSC == Constructed(FallbackStamp) /\ queues = SPSCQueueThreads

NextSPSC == SPSCQueue_try_push \/ SPSCQueue_try_pop

SpecSPSC == InitSPSC /\ [][NextSPSC]_vars

\* the items pushed and not popped
InQueue == Len(queues.pushed) - Len(queues.popped)

\* C21: SPSCQueue with one producer and one consumer.  The items popped are the items
\* whose push succeeded, in push order; try_push returns false only when the queue holds
\* capacity() items and try_pop only when it holds none.
SpscFifo ==
    /\ [](queues.kind = "SPSCQueue" => IsPrefix(queues.popped, queues.pushed))
    /\ [][/\ (queues.producer.pc = "load_head" /\ queues'.producer.pc = "idle")
                 => InQueue = capacity(queues.q)
          /\ (queues.consumer.pc = "load_tail" /\ queues'.consumer.pc = "idle")
                 => InQueue = 0]_vars

\* every item went through a ring that was found full once and empty once
SpscFifoWitness ==
    /\ queues.kind = "SPSCQueue"
    /\ Len(queues.popped) = MaxItems
    /\ queues.refused.try_push /\ queues.refused.try_pop


\* ------------------------------------------- core/memory.h, LockFreeMemoryPool by steps
\* Nodes are numbered: the pool's nodes are 1..NodePoolSize, no node is nullptr.
nullptr == 0
PoolNodes == 1..NodePoolSize

\* LockFreeMemoryPool(): the free list runs through all nodes in order.  `next` is the
\* link of the pool's own Node, `held` the nodes handed out and not yet back in the list.
LockFreeMemoryPool ==
    [free_list_head |-> 1,
     next |-> [n \in PoolNodes |-> IF n = NodePoolSize THEN nullptr ELSE n + 1],
     allocated_count |-> 0,
     held |-> {}, twice |-> FALSE]

\* the locals of a thread that is in no call
Thread == [pc |-> "idle", item |-> 0, count |-> 0, head |-> nullptr, next |-> nullptr,
           node |-> nullptr, prev_tail |-> nullptr, head_node |-> nullptr]

\* the place a thread goes to with the head it loaded: the loop of acquire ends at nullptr
AfterLoad(head) == IF head = nullptr THEN "acquired" ELSE "acquire_next"

\* LockFreeMemoryPool::acquire by thread t, from pc "acquire" to pc "acquired" with the
\* node in t.node.  A spurious failure of compare_exchange_weak repeats the iteration with
\* the same head and is left out.
acquire(t) ==
    LET th == queues.threads[t]
        pool == queues.pool
    IN  \/ /\ th.pc = "acquire"
           /\ queues' = [queues EXCEPT !.threads[t].head = pool.free_list_head,
                                       !.threads[t].node = nullptr,
                                       !.threads[t].pc = AfterLoad(pool.free_list_head)]
        \/ /\ th.pc = "acquire_next"
           /\ queues' = [queues EXCEPT !.threads[t].next = pool.next[th.head],
                                       !.threads[t].pc = "acquire_cas"]
        \/ /\ th.pc = "acquire_cas" /\ pool.free_list_head = th.head
           /\ queues' = [queues EXCEPT !.pool.free_list_head = th.next,
                                       !.pool.allocated_count = @ + 1,
                                       !.pool.held = @ \cup {th.head},
                                       !.pool.twice = @ \/ th.head \in pool.held,
                                       !.threads[t].node = th.head,
                                       !.threads[t].pc = "acquired"]
        \/ /\ th.pc = "acquire_cas" /\ pool.free_list_head # th.head
           /\ queues' = [queues EXCEPT !.threads[t].head = pool.free_list_head,
                                       !.threads[t].pc = AfterLoad(pool.free_list_head)]

\* LockFreeMemoryPool::release of t.node by thread t, from pc "release" to pc "released"
release(t) ==
    LET th == queues.threads[t]
        pool == queues.pool
    IN  \/ /\ th.pc = "release"
           /\ queues' = [queues EXCEPT !.threads[t].head = pool.free_list_head,
                                       !.threads[t].pc = "release_link"]
        \/ /\ th.pc = "release_link"
           /\ queues' = [queues EXCEPT !.pool.next[th.node] = th.head,
                                       !.threads[t].pc = "release_cas"]
        \/ /\ th.pc = "release_cas" /\ pool.free_list_head = th.head
           /\ queues' = [queues EXCEPT !.pool.free_list_head = th.node,
                                       !.pool.allocated_count = (@ - 1) % Word,
                                       !.pool.held = @ \ {th.node},
                                       !.threads[t].pc = "released"]
        \/ /\ th.pc = "release_cas" /\ pool.free_list_head # th.head
           /\ queues' = [queues EXCEPT !.threads[t].head = pool.free_list_head,
                                       !.threads[t].pc = "release_link"]

\* ---------------------------------------------------- core/queue.h, MPSCQueue by steps
Producers == {1, 2}
dummy_node == NodePoolSize + 1

\* the k-th item of producer t
ItemOf(t, k) == 10 * t + k

\* MPSCQueue(): head and tail at the dummy node; the threads are the producers and the
\* consumer (thread 0).  `next` and `data` are the fields of the queue's Node.
MPSCQueueThreads ==
    [kind |-> "MPSCQueue", head |-> dummy_node, tail |-> dummy_node,
     next |-> [n \in PoolNodes \cup {dummy_node} |-> nullptr],
     data |-> [n \in PoolNodes \cup {dummy_node} |-> 0],
     pool |-> LockFreeMemoryPool,
     threads |-> [t \in Producers \cup {0} |-> Thread],
     pushed |-> << >>, popped |-> << >>]

\* MPSCQueue::try_push by producer t
MPSCQueue_try_push(t) ==
    LET th == queues.threads[t]
    IN  /\ queues.kind = "MPSCQueue"
        /\ \/ /\ th.pc = "idle" /\ th.count < MaxPushes
              /\ queues' = [queues EXCEPT !.threads[t].pc = "acquire",
                                          !.threads[t].item = ItemOf(t, th.count + 1)]
           \/ acquire(t)
           \/ /\ th.pc = "acquired" /\ th.node = nullptr
              /\ queues' = [queues EXCEPT !.threads[t].pc = "idle"]
           \/ /\ th.pc = "acquired" /\ th.node # nullptr
              /\ queues' = [queues EXCEPT !.data[th.node] = th.item,
                                          !.threads[t].pc = "store_next"]
           \/ /\ th.pc = "store_next"
              /\ queues' = [queues EXCEPT !.next[th.node] = nullptr,
                                          !.threads[t].pc = "exchange"]
           \/ /\ th.pc = "exchange"
              /\ queues' = [queues EXCEPT !.tail = th.node,
                                          !.threads[t].prev_tail = queues.tail,
                                          !.threads[t].pc = "link"]
           \/ /\ th.pc = "link"
              /\ queues' = [queues EXCEPT !.next[th.prev_tail] = th.node,
                                          !.pushed = Append(@, th.item),
                                          !.threads[t].count = @ + 1,
                                          !.threads[t].pc = "idle"]
        /\ UNCHANGED rest_of_engine

\* MPSCQueue::try_pop by the consumer
MPSCQueue_try_pop ==
    LET th == queues.threads[0]
    IN  /\ queues.kind = "MPSCQueue"
        /\ \/ /\ th.pc = "idle"
              /\ queues' = [queues EXCEPT !.threads[0].head_node = queues.head,
                                          !.threads[0].pc = "load_next"]
           \/ /\ th.pc = "load_next" /\ queues.next[th.head_node] = nullptr
              /\ queues' = [queues EXCEPT !.threads[0].pc = "idle"]
           \/ /\ th.pc = "load_next" /\ queues.next[th.head_node] # nullptr
              /\ queues' = [queues EXCEPT !.threads[0].next = queues.next[th.head_node],
                                          !.threads[0].pc = "read"]
           \/ /\ th.pc = "read"
              /\ queues' = [queues EXCEPT !.threads[0].item = queues.data[th.next],
                                          !.threads[0].pc = "store_head"]
           \/ /\ th.pc = "store_head"
              /\ queues' = [queues EXCEPT
                     !.head = th.next,
                     !.threads[0].node = th.head_node,
                     !.threads[0].pc = IF th.head_node # dummy_node THEN "release"
                                       ELSE "released"]
           \/ release(0)
           \/ /\ th.pc = "released"
              /\ queues' = [queues EXCEPT !.popped = Append(@, th.item),
                                          !.threads[0].pc = "idle"]
        /\ UNCHANGED rest_of_engine

InitMPSC == Constructed(FallbackStamp) /\ queues = MPSCQueueThreads

NextMPSC == (\E t \in Producers : MPSCQueue_try_push(t)) \/ MPSCQueue_try_pop

SpecMPSC == InitMPSC /\ [][NextMPSC]_vars

\* the items of a sequence that producer t pushed
PushedBy(items, t) == SelectSeq(items, LAMBDA i : i \div 10 = t)

\* C22: MPSCQueue with several producers and one consumer.  No node is handed out while it
\* is held; the items popped were pushed, none is popped twice, and those of one producer
\* come out in its push order; once every call has returned and the queue reports empty,
\* every item whose push succeeded has been popped; try_push returns false only when all
\* nodes of the pool are held.
MpscDelivery ==
    /\ [](queues.kind = "MPSCQueue" =>
             /\ ~queues.pool.twice
             /\ \A i, j \in 1..Len(queues.popped) :
                    queues.popped[i] = queues.popped[j] => i = j
             /\ \A t \in Producers :
                    IsPrefix(PushedBy(queues.popped, t), PushedBy(queues.pushed, t))
             /\ ((\A t \in DOMAIN queues.threads : queues.threads[t].pc = "idle")
                    /\ queues.next[queues.head] = nullptr)
                   => Len(queues.popped) = Len(queues.pushed))
    /\ [][\A t \in Producers :
             (queues'.threads[t].pc = "acquired" /\ queues'.threads[t].node = nullptr
                 /\ queues.threads[t].pc # "acquired")
                 => queues.pool.held = PoolNodes]_vars


\* ---------------------------------------------------- core/queue.h, MPMCQueue by steps
Consumers == {3, 4}

\* MPMCQueue(): cell i carries sequence i.  `placed` lists the items in the order of the
\* positions their pushes claimed, `pushed` counts the pushes that returned true, `popped`
\* holds the position and the item of every pop that returned true; a thread's `seen` is
\* the number of pops (for a push) or of pushes (for a pop) that had returned when its
\* call began.
MPMCQueueThreads ==
    [kind |-> "MPMCQueue",
     buffer |-> [i \in 0..(2 ^ CellBits - 1) |-> [sequence |-> i, data |-> 0]],
     enqueue_pos |-> 0, dequeue_pos |-> 0,
     threads |-> [t \in Producers \cup Consumers |->
                     [pc |-> "idle", pos |-> 0, item |-> 0, seen |-> 0]],
     placed |-> << >>, pushed |-> 0, popped |-> {}]

\* the loop of try_push and try_pop: where a thread goes with the difference it computed
AfterDif(dif) == IF dif = 0 THEN "cas" ELSE IF dif < 0 THEN "idle" ELSE "reload"

\* the producers that are about to claim a position
Claiming == {t \in Producers : queues.threads[t].pc \in {"load_seq", "cas", "reload"}}

\* MPMCQueue::try_push by producer t, which offers the item t
MPMCQueue_try_push(t) ==
    LET th == queues.threads[t]
        Size == Cardinality(DOMAIN queues.buffer)
        cell == th.pos % Size
    IN  /\ queues.kind = "MPMCQueue"
        /\ \/ /\ th.pc = "idle"
              /\ Len(queues.placed) + Cardinality(Claiming) < MaxCellItems
              /\ queues' = [queues EXCEPT !.threads[t].pc = "load_seq",
                                          !.threads[t].item = t,
                                          !.threads[t].pos = queues.enqueue_pos,
                                          !.threads[t].seen = Cardinality(queues.popped)]
           \/ /\ th.pc = "load_seq"
              /\ LET dif == queues.buffer[cell].sequence - th.pos
                 IN  queues' = [queues EXCEPT !.threads[t].pc = AfterDif(dif)]
           \/ /\ th.pc = "cas" /\ queues.enqueue_pos = th.pos
              /\ queues' = [queues EXCEPT !.enqueue_pos = th.pos + 1,
                                          !.placed = Append(@, th.item),
                                          !.threads[t].pc = "write"]
           \/ /\ th.pc \in {"cas", "reload"} /\ (th.pc = "cas" => queues.enqueue_pos # th.pos)
              /\ queues' = [queues EXCEPT !.threads[t].pos = queues.enqueue_pos,
                                          !.threads[t].pc = "load_seq"]
           \/ /\ th.pc = "write"
              /\ queues' = [queues EXCEPT !.buffer[cell].data = th.item,
                                          !.threads[t].pc = "store_seq"]
           \/ /\ th.pc = "store_seq"
              /\ queues' = [queues EXCEPT !.buffer[cell].sequence = th.pos + 1,
                                          !.pushed = @ + 1,
                                          !.threads[t].pc = "idle"]
        /\ UNCHANGED rest_of_engine

\* MPMCQueue::try_pop by consumer t
MPMCQueue_try_pop(t) ==
    LET th == queues.threads[t]
        Size == Cardinality(DOMAIN queues.buffer)
        cell == th.pos % Size
    IN  /\ queues.kind = "MPMCQueue"
        /\ \/ /\ th.pc = "idle"
              /\ queues' = [queues EXCEPT !.threads[t].pc = "load_seq",
                                          !.threads[t].pos = queues.dequeue_pos,
                                          !.threads[t].seen = queues.pushed]
           \/ /\ th.pc = "load_seq"
              /\ LET dif == queues.buffer[cell].sequence - (th.pos + 1)
                 IN  queues' = [queues EXCEPT !.threads[t].pc = AfterDif(dif)]
           \/ /\ th.pc = "cas" /\ queues.dequeue_pos = th.pos
              /\ queues' = [queues EXCEPT !.dequeue_pos = th.pos + 1,
                                          !.threads[t].pc = "read"]
           \/ /\ th.pc \in {"cas", "reload"} /\ (th.pc = "cas" => queues.dequeue_pos # th.pos)
              /\ queues' = [queues EXCEPT !.threads[t].pos = queues.dequeue_pos,
                                          !.threads[t].pc = "load_seq"]
           \/ /\ th.pc = "read"
              /\ queues' = [queues EXCEPT !.threads[t].item = queues.buffer[cell].data,
                                          !.threads[t].pc = "store_seq"]
           \/ /\ th.pc = "store_seq"
              /\ queues' = [queues EXCEPT
                     !.buffer[cell].sequence = th.pos + (Size - 1) + 1,
                     !.popped = @ \cup {[pos |-> th.pos, item |-> th.item]},
                     !.threads[t].pc = "idle"]
        /\ UNCHANGED rest_of_engine

InitMPMC == Constructed(FallbackStamp) /\ queues = MPMCQueueThreads

NextMPMC ==
    \/ \E t \in Producers : MPMCQueue_try_push(t)
    \/ \E t \in Consumers : MPMCQueue_try_pop(t)

SpecMPMC == InitMPMC /\ [][NextMPMC]_vars

\* the threads of a set that are inside a call
InFlight(threads) == {t \in threads : queues.threads[t].pc # "idle"}

\* C23: MPMCQueue is linearizable as a bounded FIFO of capacity Size.  Every pop returns
\* the item that was enqueued at the position it dequeues, no position is popped twice;
\* a try_push that returns false had an instant between call and return at which the queue
\* could hold Size items (the pushes begun by its return less the pops that had returned
\* when it was called are at least Size); a try_pop that returns false had an instant at
\* which the queue could be empty (the pushes that had returned when it was called are no
\* more than the pops begun by its return).
MpmcLinearizable ==
    /\ [](queues.kind = "MPMCQueue" =>
             \A i, j \in queues.popped :
                /\ i.item = queues.placed[i.pos + 1]
                /\ i.pos = j.pos => i = j)
    /\ [][/\ \A t \in Producers :
                (queues.threads[t].pc = "load_seq" /\ queues'.threads[t].pc = "idle") =>
                    queues.pushed + Cardinality(InFlight(Producers \ {t}))
                        - queues.threads[t].seen >= Cardinality(DOMAIN queues.buffer)
          /\ \A t \in Consumers :
                (queues.threads[t].pc = "load_seq" /\ queues'.threads[t].pc = "idle") =>
                    queues.threads[t].seen
                        <= Cardinality(queues.popped)
                               + Cardinality(InFlight(Consumers \ {t}))]_vars


\* -------------------------------------------------- core/queue.h, PriorityQueue by steps
\* The tiers are SPSCQueues; a try_push or try_pop on a tier is one step, taken where the
\* tier's queue makes it visible.  `offered` lists the items in the order they entered
\* their tiers, `pushed` the items whose try_push has returned true, `popped` the items
\* handed out, each with its tier; the consumer's `seen` holds the items that were pushed
\* and not popped when its call began.
Tiers == 0..(NumPriorities - 1)

\* PriorityQueue(): every tier empty, the hint at NumPriorities
PriorityQueueThreads ==
    [kind |-> "PriorityQueue",
     levels |-> [p \in Tiers |-> [queue |-> SPSCQueue(2 ^ RingBits), count |-> 0]],
     highest_priority |-> NumPriorities,
     producer |-> [pc |-> "idle", item |-> 0, priority |-> 0, current_highest |-> 0],
     consumer |-> [pc |-> "idle", start_priority |-> 0, p |-> 0, next |-> 0, item |-> 0,
                   seen |-> {}],
     offered |-> << >>, pushed |-> << >>, popped |-> << >>,
     refused |-> FALSE]

\* the items of a sequence that are not in another
Remaining(pushed, popped) ==
    {pushed[i] : i \in 1..Len(pushed)} \ {popped[i] : i \in 1..Len(popped)}

\* PriorityQueue::try_push, the clamp of the priority
Clamp(priority) == IF priority >= NumPriorities THEN NumPriorities - 1 ELSE priority

\* PriorityQueue::try_push by the producer, which offers the items 1, 2, ...
PriorityQueue_try_push(priority) ==
    LET t == queues.producer
        push == try_push(queues.levels[Clamp(priority)].queue, Len(queues.offered) + 1)
    IN  /\ queues.kind = "PriorityQueue"
        /\ \/ /\ t.pc = "idle" /\ Len(queues.offered) < MaxTierItems /\ push.ok
              /\ queues' = [queues EXCEPT
                     !.levels[Clamp(priority)].queue = push.q,
                     !.offered = Append(@, [item |-> Len(@) + 1, tier |-> Clamp(priority),
                                           priority |-> priority]),
                     !.producer.item = Len(queues.offered) + 1,
                     !.producer.priority = Clamp(priority),
                     !.producer.pc = "count"]
           \/ /\ t.pc = "idle" /\ Len(queues.offered) < MaxTierItems /\ ~push.ok
              /\ queues' = [queues EXCEPT !.refused = TRUE]
        /\ UNCHANGED rest_of_engine

\* PriorityQueue::try_push after the tier took the item: the count and the hint
PriorityQueue_try_push_hint ==
    LET t == queues.producer
        done == [queues EXCEPT !.producer.pc = "idle",
                               !.pushed = Append(@, [item |-> t.item, tier |-> t.priority])]
    IN  /\ queues.kind = "PriorityQueue"
        /\ \/ /\ t.pc = "count"
              /\ queues' = [queues EXCEPT !.levels[t.priority].count = (@ + 1) % Word,
                                          !.producer.pc = "load_hint"]
           \/ /\ t.pc = "load_hint"
              /\ queues' = [queues EXCEPT !.producer.current_highest = queues.highest_priority,
                                          !.producer.pc = "cas_hint"]
           \/ /\ t.pc = "cas_hint" /\ ~(t.priority < t.current_highest)
              /\ queues' = done
           \/ /\ t.pc = "cas_hint" /\ t.priority < t.current_highest
              /\ queues.highest_priority = t.current_highest
              /\ queues' = [done EXCEPT !.highest_priority = t.priority]
           \/ /\ t.pc = "cas_hint" /\ t.priority < t.current_highest
              /\ queues.highest_priority # t.current_highest
              /\ queues' = [queues EXCEPT !.producer.current_highest = queues.highest_priority]
        /\ UNCHANGED rest_of_engine

\* PriorityQueue::try_pop by the consumer, with find_next_highest_priority: its loop reads
\* the count of one tier per step (pc "scan", tier `next`), its store is another step.
PriorityQueue_try_pop ==
    LET t == queues.consumer
        pop == try_pop(queues.levels[t.p].queue)
        done == [queues EXCEPT !.consumer.pc = "idle",
                               !.popped = Append(@, [item |-> t.item, tier |-> t.p])]
    IN  /\ queues.kind = "PriorityQueue"
        /\ \/ /\ t.pc = "idle"
              /\ queues' = [queues EXCEPT
                     !.consumer.start_priority = queues.highest_priority,
                     !.consumer.p = queues.highest_priority,
                     !.consumer.seen = Remaining(queues.pushed, queues.popped),
                     !.consumer.pc = "level"]
           \/ /\ t.pc = "level" /\ t.p >= NumPriorities
              /\ queues' = [queues EXCEPT !.consumer.pc = "idle"]
           \/ /\ t.pc = "level" /\ t.p < NumPriorities /\ ~pop.ok
              /\ queues' = [queues EXCEPT !.consumer.p = @ + 1]
           \/ /\ t.pc = "level" /\ t.p < NumPriorities /\ pop.ok
              /\ queues' = [queues EXCEPT !.levels[t.p].queue = pop.q,
                                          !.consumer.item = pop.item,
                                          !.consumer.pc = "uncount"]
           \/ /\ t.pc = "uncount"
              /\ queues' = [queues EXCEPT !.levels[t.p].count = (@ - 1) % Word,
                                          !.consumer.pc = "check"]
           \/ /\ t.pc = "check"
              /\ IF t.p = t.start_priority /\ queues.levels[t.p].count = 0
                 THEN queues' = [queues EXCEPT !.consumer.pc = "scan",
                                               !.consumer.next = t.p + 1]
                 ELSE queues' = done
           \/ /\ t.pc = "scan" /\ t.next < NumPriorities
              /\ IF queues.levels[t.next].count > 0
                 THEN queues' = [queues EXCEPT !.consumer.pc = "store"]
                 ELSE queues' = [queues EXCEPT !.consumer.next = @ + 1]
           \/ /\ t.pc = "scan" /\ t.next >= NumPriorities
              /\ queues' = [queues EXCEPT !.consumer.pc = "store"]
           \/ /\ t.pc = "store"
              /\ queues' = [done EXCEPT !.highest_priority = t.next]
        /\ UNCHANGED rest_of_engine

InitPriority == Constructed(FallbackStamp) /\ queues = PriorityQueueThreads

NextPriority ==
    \/ \E priority \in 0..NumPriorities : PriorityQueue_try_push(priority)
    \/ PriorityQueue_try_push_hint
    \/ PriorityQueue_try_pop

SpecPriority == InitPriority /\ [][NextPriority]_vars

\* the items of one tier, in order
OfTier(items, tier) ==
    SelectSeq([i \in 1..Len(items) |-> [item |-> items[i].item, tier |-> items[i].tier]],
              LAMBDA i : i.tier = tier)

\* C24: PriorityQueue with one producer and one consumer.  A priority that names no tier
\* goes to the lowest tier; the items of a tier come out in the order they went in; a
\* try_pop returns an item of a tier no lower in priority than any item that was pushed and
\* not popped when it was called, and does not return false if there was one; with no call
\* under way the hint does not point behind a tier that holds an item.
PriorityOrder ==
    /\ [](queues.kind = "PriorityQueue" =>
             /\ \A i \in 1..Len(queues.offered) :
                    queues.offered[i].priority >= NumPriorities
                        => queues.offered[i].tier = NumPriorities - 1
             /\ \A tier \in Tiers :
                    IsPrefix(OfTier(queues.popped, tier), OfTier(queues.offered, tier))
             /\ (queues.producer.pc = "idle" /\ queues.consumer.pc = "idle") =>
                    \A r \in Remaining(queues.pushed, queues.popped) :
                        queues.highest_priority <= r.tier)
    /\ [][(queues.kind = "PriorityQueue" /\ queues.consumer.pc # "idle"
              /\ queues'.consumer.pc = "idle") =>
             IF Len(queues'.popped) > Len(queues.popped)
             THEN \A r \in queues.consumer.seen : queues.consumer.p <= r.tier
             ELSE queues.consumer.seen = {}]_vars

\* ------------------------------------------------------------ claims C31 to C40
\* the quotient of a signed division, rounded towards zero
Quotient(a, b) == IF a < 0 THEN -((-a) \div b) ELSE a \div b

\* the tracker of the one symbol the risk manager is told about
Tracked(rm) == TrackerOf(rm.positions, 1)

\* C31: a fill that reduces a long position changes realized_pnl by exactly
\* (exit - entry_vwap) * qty / scale, and one that reduces a short position by
\* (entry_vwap - exit) * qty / scale, signed, where long or short is the sign of the
\* position before the fill and entry_vwap is the tracker's VWAP before the fill.
RealizedPnlExact ==
    [][LET before == Tracked(risk_manager)
           trade == last_call'.trade
           reduces_long == before.current_position > 0 /\ trade.aggressor_side = "Sell"
           reduces_short == before.current_position < 0 /\ trade.aggressor_side = "Buy"
           gain == IF reduces_long THEN trade.price - before.vwap
                   ELSE before.vwap - trade.price
       IN (last_call'.op = "update_position" /\ (reduces_long \/ reduces_short)) =>
             Tracked(risk_manager').realized_pnl
                 = before.realized_pnl + Quotient(gain * trade.quantity, PriceScale)]_vars

\* what the order of the last process_order call has left open
Unmatched == last_call.order.quantity - SumTrades(result.trades)

\* the last process_order call ran into a failing create_trade: it returned with
\* quantity left while an opposite level it can cross still holds an order
TradeAllocationFailed == Processed /\ Unmatched > 0 /\ CrossableQty(last_call.order) > 0

\* the last process_order call found no OrderEntry for what it had left
EntryAllocationFailed == Processed /\ Unmatched > 0 /\ result.remaining_order = << >>

\* C32: when the allocation of a Trade or of the OrderEntry for the remainder fails
\* during process_order, the remainder is not rested, the result is marked not fully
\* matched, nothing is matched after the failure (every trade of the call took a slot
\* of the pool before it ran out), and each trade emitted has been deducted from the
\* resting order it was made with.
AllocationFailureStops ==
    (TradeAllocationFailed \/ EntryAllocationFailed) =>
        /\ ~result.fully_matched
        /\ \A e \in RestingEntries : e.ptr # CallPtr
        /\ \A id \in DOMAIN order_lookup : order_lookup[id] # CallPtr
        /\ TradeAllocationFailed => trade_pool = TradePoolSize
        /\ \A i \in 1..Len(result.trades) :
              /\ callbacks[2 * i].order.filledQuantity >= result.trades[i].quantity
              /\ \A e \in RestingEntries :
                    e.ptr = callbacks[2 * i].ptr => e.traded >= result.trades[i].quantity

\* nothing is in flight between the workers: the three queues of the pipeline are empty
PipelineQuiescent ==
    /\ size(incoming_orders) = 0
    /\ size(risk_approved_orders) = 0
    /\ trade_notifications.items = << >>

\* C33: every Trade slot acquired from trade_pool is released once the trade has been
\* consumed downstream, so that no slot is allocated whenever the pipeline is quiescent.
TradeSlotsReleased == PipelineQuiescent => trade_pool = 0

\* the trades among the callbacks of a call, in order
TradesOf(cbs) ==
    LET events == SelectSeq(cbs, LAMBDA c : c.kind = "trade")
    IN [i \in 1..Len(events) |-> events[i].trade]

\* MatchingEngine::process_order leaving by an exception: std::make_unique<PriceLevel>
\* in add_order_to_book (368, 376) throws std::bad_alloc.  The match loop has run and
\* the entry of the remainder is acquired; the level is not created, the entry is
\* neither linked nor entered in order_lookup, and no MatchResult is returned.
process_order_throws(incoming_order) ==
    /\ total_orders_processed' = total_orders_processed + 1
    /\ LET new_ptr == total_orders_processed + 1
           r == IF incoming_order.side = "Buy"
                THEN match_buy_order(incoming_order, new_ptr)
                ELSE match_sell_order(incoming_order, new_ptr)
           own == IF incoming_order.side = "Buy" THEN bid_levels ELSE ask_levels
       IN /\ ~r.fully_matched /\ r.remaining_order # << >>
          /\ incoming_order.price \notin DOMAIN own
          /\ IF incoming_order.side = "Buy"
             THEN ask_levels' = r.m.levels /\ bid_levels' = bid_levels
             ELSE bid_levels' = r.m.levels /\ ask_levels' = ask_levels
          /\ order_lookup' = r.m.order_lookup
          /\ order_pool' = r.m.order_pool
          /\ trade_pool' = r.m.trade_pool
          /\ trade_id_generator' = r.m.trade_id_generator
          /\ total_trades_generated' = r.m.total_trades_generated
          /\ total_volume_matched' = r.m.total_volume_matched
          /\ callbacks' = r.m.callbacks
    /\ result' = [ret |-> FALSE]
    /\ last_call' = [op |-> "exception", order |-> incoming_order]

\* TradingEngine::order_processing_loop when process_order throws: the exception leaves
\* the while loop, which lies inside the try block (262-281); the handler (282-286)
\* writes to std::cerr and the thread function returns
order_processing_loop_throws ==
    /\ WorkerAt("order_processing_loop") = "loop" /\ engine_running
    /\ LET pop == try_pop(risk_approved_orders)
       IN /\ pop.ok
          /\ risk_approved_orders' = pop.q
          /\ process_order_throws(pop.item)
          /\ strategies' = [i \in DOMAIN strategies |->
                                on_trades(strategies[i], TradesOf(callbacks'))]
          /\ history' = [history EXCEPT !.processed = Append(@, pop.item),
                                        !.emitted = @ \o TradesOf(callbacks'),
                                        !.updates = @ \o UpdatedOrders(callbacks')]
    /\ worker_threads' = MoveWorker("order_processing_loop", "exited")
    /\ UNCHANGED <<risk_manager, clock, incoming_orders, trade_notifications, statistics,
                   lifecycle_vars>>

\* the order pipeline with a matcher worker whose allocations can fail
NextExceptions == NextPipeline \/ order_processing_loop_throws

SpecExceptions == Init /\ [][NextExceptions]_vars

\* C34: an exception raised while a worker processes one item is caught at the top of
\* the worker's loop and the worker goes on with the next iteration: while the running
\* flag is set, no worker thread of a started engine has left its loop.
WorkersSurviveExceptions ==
    engine_running =>
        \A i \in DOMAIN worker_threads : worker_threads[i].at \notin {"exited", "joined"}

\* ------------------------------------------------------- orders of several symbols
MaxSymbolOrders == 3
Symbols == {1, 2}

\* GTC limit orders for any of the symbols
SymbolOrders == {[o EXCEPT !.symbolID = s] : o \in LimitOrders, s \in Symbols}

\* the matcher worker hands process_order an approved order of some symbol
ProcessSymbolOrder ==
    /\ \E o \in SymbolOrders : total_orders_processed < MaxSymbolOrders /\ process_order(o)
    /\ UNCHANGED engine_vars

NextSymbols == ProcessSymbolOrder \/ Cancel

SpecSymbols == Init /\ [][NextSymbols]_vars

\* the resting entries of the symbols other than s
EntriesNotOf(bids, asks, s) ==
    {e \in EntriesOf(bids) \cup EntriesOf(asks) : e.order.symbolID # s}

\* C35: every trade pairs a buy and a sell order of the same symbol, and processing an
\* order for symbol s never fills, removes or changes a resting order of another symbol.
SymbolIsolation ==
    [][last_call'.op = "process_order" =>
          LET s == last_call'.order.symbolID
          IN /\ \A k \in UpdatesAt(callbacks') : callbacks'[k].order.symbolID = s
             /\ \A i \in 1..Len(result'.trades) : result'.trades[i].symbol_id = s
             /\ EntriesNotOf(bid_levels', ask_levels', s)
                    = EntriesNotOf(bid_levels, ask_levels, s)]_vars

\* C36: the book is never left crossed: whenever both sides hold a level (after every
\* process_order and cancel_order call), the best bid is below the best ask.
NeverCrossed ==
    (DOMAIN bid_levels # {} /\ DOMAIN ask_levels # {})
        => MaxKey(DOMAIN bid_levels) < MinKey(DOMAIN ask_levels)

\* ------------------------------------------- the pipeline with several trades under way
\* the nodes of trade_notifications at the scale of this scenario: the trade worker
\* receives more than one trade (a pool of one node passes a single trade, ever)
PositionQueueSize == 2

\* an engine constructed after TimestampManager::initialize() has run in the process
\* (start() of an earlier engine, trading_engine.h 70): the global limiter is stamped
\* with the clock and is refilled as time passes
InitPosition == ConstructedWith(0, PositionQueueSize) /\ queues = NoQueue

\* a client thread submits its next order, of the largest size the risk gate lets through
SubmitLargest ==
    /\ statistics.orders_received < MaxSubmits
    /\ \E o \in {c \in ClientOrders(statistics.orders_received + 1) :
                     c.quantity = max_order_size} : submit_order(o)
    /\ UNCHANGED <<book_vars, risk_manager, clock, risk_approved_orders,
                   trade_notifications, worker_threads, strategies, lifecycle_vars>>

\* clients submit, the three workers run and time passes
NextPosition ==
    \/ start
    \/ SubmitLargest
    \/ risk_processing_loop
    \/ order_processing_loop
    \/ trade_notification_loop
    \/ AdvanceClock

SpecPosition == InitPosition /\ [][NextPosition]_vars

\* C37: the position limit holds end to end: whatever orders are submitted and filled,
\* with approved orders in flight between the risk gate and the matching engine, the
\* position the risk manager records for a symbol never exceeds max_position in size.
PositionLimitHolds ==
    \A s \in DOMAIN risk_manager.positions :
        Abs(risk_manager.positions[s].current_position) <= max_position

\* ------------------------------------- submit_order called from more than one thread
\* incoming_orders with the threads that call TradingEngine::submit_order (1: an external
\* caller, 2: the strategy worker through the order callback) and the risk worker as the
\* consumer.  A caller record holds how many calls it has made (`count`) and the locals of
\* try_push; `pushed` lists the orders whose submit_order returned true.
Submitters == Producers

IncomingOrdersThreads ==
    [callers |-> [t \in Submitters |->
                     [pc |-> "idle", count |-> 0, current_tail |-> 0, next_tail |-> 0]],
     orders_received |-> 0] @@ SPSCQueueThreads

\* TradingEngine::submit_order on thread t, one atomic access per step: the fetch_add on
\* orders_received, then SPSCQueue::try_push.  Two callers that store into one slot at
\* the same time race on it; the later store is taken to win as a whole.
TradingEngine_submit_order(t) ==
    LET c == queues.callers[t]
        Size == QueueSizeOf(queues.q)
        order == ItemOf(t, c.count + 1)
    IN  /\ queues.kind = "SPSCQueue" /\ "callers" \in DOMAIN queues
        /\ \/ /\ c.pc = "idle" /\ c.count < MaxCallerSubmits
              /\ queues' = [queues EXCEPT !.orders_received = @ + 1,
                                          !.callers[t].pc = "load_tail"]
           \/ /\ c.pc = "load_tail"
              /\ queues' = [queues EXCEPT
                     !.callers[t].pc = "load_head",
                     !.callers[t].current_tail = queues.q.tail,
                     !.callers[t].next_tail = (queues.q.tail + 1) % Size]
           \/ /\ c.pc = "load_head" /\ ring_full(c.next_tail, queues.q.head)
              /\ queues' = [queues EXCEPT !.callers[t].pc = "idle",
                                          !.callers[t].count = @ + 1,
                                          !.refused.try_push = TRUE]
           \/ /\ c.pc = "load_head" /\ ~ring_full(c.next_tail, queues.q.head)
              /\ queues' = [queues EXCEPT !.callers[t].pc = "write"]
           \/ /\ c.pc = "write"
              /\ queues' = [queues EXCEPT !.callers[t].pc = "store_tail",
                                          !.q.buffer[c.current_tail] = order]
           \/ /\ c.pc = "store_tail"
              /\ queues' = [queues EXCEPT !.callers[t].pc = "idle",
                                          !.callers[t].count = @ + 1,
                                          !.q.tail = c.next_tail,
                                          !.pushed = Append(@, order)]
        /\ UNCHANGED rest_of_engine

InitSubmit == Constructed(FallbackStamp) /\ queues = IncomingOrdersThreads

NextSubmit == (\E t \in Submitters : TradingEngine_submit_order(t)) \/ SPSCQueue_try_pop

SpecSubmit == InitSubmit /\ [][NextSubmit]_vars

\* how often an item occurs in a sequence
Occurrences(s, item) == Cardinality({i \in 1..Len(s) : s[i] = item})

\* no call is under way and the ring is empty
SubmitQuiescent ==
    /\ \A t \in Submitters : queues.callers[t].pc = "idle"
    /\ queues.consumer.pc = "idle"
    /\ queues.q.head = queues.q.tail

\* C38: with submit_order called from more than one thread, every order for which
\* submit_order returned true is delivered to the risk gate exactly once: no order is
\* delivered twice, and once the ring is drained with no call under way every accepted
\* order has been delivered.
SubmitExactlyOnce ==
    /\ \A i \in 1..Len(queues.pushed) :
           Occurrences(queues.popped, queues.pushed[i]) <= 1
    /\ SubmitQuiescent =>
           \A i \in 1..Len(queues.pushed) :
               Occurrences(queues.popped, queues.pushed[i]) = 1

\* ------------------------------------- core/memory.h, LockFreeMemoryPool on its own
MaxAcquires == 2

\* the pool with two threads that acquire nodes, keep them (`holding`) and release them
PoolThreads ==
    [kind |-> "LockFreeMemoryPool",
     pool |-> LockFreeMemoryPool,
     threads |-> [t \in Producers |-> [holding |-> {}] @@ Thread]]

\* thread t calls acquire() up to MaxAcquires times and release() on nodes it holds
PoolUser(t) ==
    LET th == queues.threads[t]
    IN  /\ queues.kind = "LockFreeMemoryPool"
        /\ \/ /\ th.pc = "idle" /\ th.count < MaxAcquires
              /\ queues' = [queues EXCEPT !.threads[t].pc = "acquire",
                                          !.threads[t].count = @ + 1]
           \/ acquire(t)
           \/ /\ th.pc = "acquired"
              /\ queues' = [queues EXCEPT
                     !.threads[t].pc = "idle",
                     !.threads[t].holding = IF th.node = nullptr THEN @
                                            ELSE @ \cup {th.node}]
           \/ /\ th.pc = "idle"
              /\ \E n \in th.holding :
                    queues' = [queues EXCEPT !.threads[t].pc = "release",
                                             !.threads[t].node = n,
                                             !.threads[t].holding = @ \ {n}]
           \/ release(t)
           \/ /\ th.pc = "released"
              /\ queues' = [queues EXCEPT !.threads[t].pc = "idle"]
        /\ UNCHANGED rest_of_engine

InitPool == Constructed(FallbackStamp) /\ queues = PoolThreads

NextPool == \E t \in Producers : PoolUser(t)

SpecPool == InitPool /\ [][NextPool]_vars

\* the nodes on the free list: those reached from free_list_head in at most k steps
RECURSIVE FreeFrom(_, _, _)
FreeFrom(pool, n, k) ==
    IF n = nullptr \/ k = 0 THEN {} ELSE {n} \cup FreeFrom(pool, pool.next[n], k - 1)

FreeNodes(pool) == FreeFrom(pool, pool.free_list_head, NodePoolSize)

\* C39: under any interleaving of acquire() and release(), the pool never hands out a
\* node that is held; with no call under way every node is either held by one thread or
\* on the free list (none lost, none duplicated) and size() is the number of held nodes;
\* acquire() returns null only when all nodes are held.
PoolIntegrity ==
    /\ [](queues.kind = "LockFreeMemoryPool" =>
             /\ ~queues.pool.twice
             /\ (\A t \in Producers : queues.threads[t].pc = "idle") =>
                    /\ \A t, u \in Producers :
                           t # u => queues.threads[t].holding \cap queues.threads[u].holding = {}
                    /\ FreeNodes(queues.pool)
                           = PoolNodes \ UNION {queues.threads[t].holding : t \in Producers}
                    /\ queues.pool.allocated_count
                           = Cardinality(UNION {queues.threads[t].holding : t \in Producers}))
    /\ [][queues.kind = "LockFreeMemoryPool" =>
             \A t \in Producers :
                 (/\ queues.threads[t].pc # "acquired"
                  /\ queues'.threads[t].pc = "acquired"
                  /\ queues'.threads[t].node = nullptr)
                     => queues.pool.held = PoolNodes]_vars

\* ------------------------------------- core/queue.h, MPMCQueue::empty, full and capacity
\* MPMCQueue::empty(): the sequence of the cell at dequeue_pos is no more than dequeue_pos
MPMCQueue_empty(q) ==
    LET pos == q.dequeue_pos
        seq == q.buffer[pos % Cardinality(DOMAIN q.buffer)].sequence
    IN  seq <= pos

\* MPMCQueue::full(): the sequence of the cell at enqueue_pos is no more than enqueue_pos
MPMCQueue_full(q) ==
    LET pos == q.enqueue_pos
        seq == q.buffer[pos % Cardinality(DOMAIN q.buffer)].sequence
    IN  seq <= pos

\* MPMCQueue::capacity(): Size
MPMCQueue_capacity(q) == Cardinality(DOMAIN q.buffer)

\* the items an MPMCQueue holds when no call is under way
MpmcHeld == queues.pushed - Cardinality(queues.popped)

MpmcQuiescent ==
    /\ queues.kind = "MPMCQueue"
    /\ InFlight(Producers \cup Consumers) = {}

\* C40: with no call under way, MPMCQueue::full() is true exactly when the queue holds
\* capacity() = Size items and MPMCQueue::empty() is true exactly when it holds none; a
\* queue just constructed is empty and not full.
MpmcFullEmptyExact ==
    MpmcQuiescent =>
        /\ MPMCQueue_full(queues) <=> (MpmcHeld = MPMCQueue_capacity(queues))
        /\ MPMCQueue_empty(queues) <=> (MpmcHeld = 0)

====
